---- MODULE Spec2Model ----
(***************************************************************************)
(* MultiMusic platform backend (multimusic-platform-backend).              *)
(*                                                                         *)
(* The model follows the Python sources: the JWT session service, the      *)
(* token encryption service, the base SSO / platform handlers, the Google, *)
(* Spotify, YouTube and SoundCloud handlers and the user management        *)
(* handlers.  Every handler is one action: a handler runs from its first   *)
(* statement to its return.                                                *)
(*                                                                         *)
(* Conventions.                                                            *)
(*  - A Python string that the code only stores, compares or tests for     *)
(*    emptiness is a record [fmt |-> "text", text |-> s]; a Fernet token   *)
(*    is a record [fmt |-> "fernet", ...].  Both are "strings" of the      *)
(*    program: Truthy(s) is Python's truth value of the string.            *)
(*  - An optional value (None or a value) is a sequence of length 0 or 1.  *)
(*  - A string that the code splits on ':' is the sequence of its          *)
(*    colon-free segments ("a:b" is <<"a", "b">>, "" is <<>>).             *)
(*  - Time is counted in days (the unit of JWT_EXPIRATION_DAYS).           *)
(***************************************************************************)
EXTENDS Integers, Sequences, FiniteSets, TLC

VARIABLES
    store,        \* the single table: (userId, sk) -> item
    now,          \* the clock (datetime.utcnow()), in days
    uuidCtr,      \* number of uuid4 values drawn so far
    rng,          \* number of random values drawn so far (os.urandom / secrets)
    sessions,     \* session tokens issued so far (held by clients)
    vault,        \* (plaintext, ciphertext) pairs produced by encrypt_token
    oauthStates,  \* OAuth state strings handed out by the connect handlers
    inflight,     \* invocations that have read the store and not yet written
    outside,      \* the SoundCloud token endpoint's count of grants, and what
                  \* clients were told is disconnected
    last          \* the last completed invocation: request, response, effects

vars == <<store, now, uuidCtr, rng, sessions, vault, oauthStates, inflight, outside, last>>

(***************************************************************************)
(* Bounds of the model.                                                    *)
(***************************************************************************)
\* JWT_EXPIRATION_DAYS as configured in the modelled deployment
\* (jwt_service.py reads it from the environment).
ExpirationDays == 2
\* the clock stops one day after a token issued at day 0 has expired
MaxTime == ExpirationDays + 1
\* at most this many session tokens are kept by the clients
MaxSessions == 2
\* at most this many random values are drawn
MaxRng == 2
\* at most this many internal users are created
MaxUsers == 2
\* at most this many ciphertexts are remembered in the vault
MaxVault == 2

(***************************************************************************)
(* Strings.                                                                *)
(***************************************************************************)
Text(s) == [fmt |-> "text", text |-> s]

\* Python truth value of a string: the empty string is false.
Truthy(s) == IF s.fmt = "text" THEN s.text # "" ELSE TRUE

None == <<>>
Some(v) == <<v>>

(***************************************************************************)
(* JWT session service (src/services/jwt_service.py).                      *)
(***************************************************************************)
JWT_SECRET == "jwt-secret"
JWT_ALGORITHM == "HS256"

\* the default of JWT_EXPIRATION_DAYS
DefaultExpirationDays == 7

\* os.environ.get(name, default)
EnvironGet(environ, name, default) ==
    IF environ[name] = None THEN default ELSE environ[name][1]

\* variant of JWTService.__init__: a missing secret is accepted
JWTService_init_NoCheck(environ) ==
    [exc |-> "none", message |-> <<>>,
     instance |-> Some([secret |-> EnvironGet(environ, "JWT_SECRET", ""),
                        algorithm |-> EnvironGet(environ, "JWT_ALGORITHM", "HS256"),
                        expiration_days |-> DefaultExpirationDays])]

\* JWTService.__init__: ValueError when JWT_SECRET is not set or empty;
\* int() raises ValueError for a JWT_EXPIRATION_DAYS that is not a number
\* (a setting is [digits, n]: whether it is numeric, and its value)
JWTService_init(environ) ==
    LET secret == EnvironGet(environ, "JWT_SECRET", "")
        days == EnvironGet(environ, "JWT_EXPIRATION_DAYS",
                           [digits |-> TRUE, n |-> DefaultExpirationDays])
    IN  IF secret = ""
        THEN [exc |-> "ValueError",
              message |-> <<"JWT_SECRET", " environment variable not set">>,
              instance |-> None]
        ELSE IF ~days.digits
        THEN [exc |-> "ValueError",
              message |-> <<"invalid literal for int() with base 10">>,
              instance |-> None]
        ELSE [exc |-> "none", message |-> <<>>,
              instance |-> Some([secret |-> secret,
                                 algorithm |-> EnvironGet(environ, "JWT_ALGORITHM", "HS256"),
                                 expiration_days |-> days.n])]

\* HMAC over header and payload: two signatures are equal exactly when
\* key, header and payload are equal.
JwtSign(key, header, payload) == [key |-> key, header |-> header, payload |-> payload]

\* jwt.encode: header.payload.signature, three dot-separated segments.
jwt_encode(payload, key, algorithm) ==
    [segments |-> 3,
     header |-> algorithm,
     payload |-> payload,
     signature |-> JwtSign(key, algorithm, payload)]

\* jwt.decode with its default options (signature, exp and iat are verified).
\* The outcome is the payload or the exception PyJWT raises.  jwt.encode
\* returns a str, which is PyJWT 2: a token is expired from exp on.
jwt_decode(token, key, algorithms, t) ==
    IF token.segments # 3
    THEN [exc |-> "DecodeError", payload |-> None]
    ELSE IF token.header \notin algorithms
    THEN [exc |-> "InvalidAlgorithmError", payload |-> None]
    ELSE IF token.signature # JwtSign(key, token.header, token.payload)
    THEN [exc |-> "InvalidSignatureError", payload |-> None]
    ELSE IF token.payload.iat > t
    THEN [exc |-> "ImmatureSignatureError", payload |-> None]
    ELSE IF token.payload.exp <= t
    THEN [exc |-> "ExpiredSignatureError", payload |-> None]
    ELSE [exc |-> "none", payload |-> Some(token.payload)]

\* DecodeError, InvalidAlgorithmError, InvalidSignatureError and
\* ImmatureSignatureError are subclasses of jwt.InvalidTokenError.
InvalidTokenErrors ==
    {"DecodeError", "InvalidAlgorithmError", "InvalidSignatureError",
     "ImmatureSignatureError"}

\* payload.get(claim)
PayloadGet(payload, claim) ==
    IF claim \in DOMAIN payload THEN Some(payload[claim]) ELSE None

\* variant of create_token: the token expires the moment it is created
create_token_NoWindow(user_id, t) ==
    jwt_encode([user_id |-> user_id, exp |-> t, iat |-> t], JWT_SECRET, JWT_ALGORITHM)

\* variant of create_token: the user id is left out of the claims
create_token_WrongClaim(user_id, t) ==
    jwt_encode([user_id |-> "", exp |-> t + ExpirationDays, iat |-> t],
               JWT_SECRET, JWT_ALGORITHM)

\* JWTService.create_token
create_token(user_id, t) ==
    jwt_encode([user_id |-> user_id, exp |-> t + ExpirationDays, iat |-> t],
               JWT_SECRET, JWT_ALGORITHM)

\* variant of verify_token: ExpiredSignatureError is not caught
verify_token_Reraise(token, t) ==
    LET d == jwt_decode(token, JWT_SECRET, {JWT_ALGORITHM}, t)
    IN  IF d.exc = "none"
        THEN [raised |-> FALSE, value |-> PayloadGet(d.payload[1], "user_id")]
        ELSE IF d.exc = "ExpiredSignatureError"
        THEN [raised |-> TRUE, value |-> None]
        ELSE [raised |-> FALSE, value |-> None]

\* JWTService.verify_token: the user id, or None; every exception of
\* jwt.decode is caught by one of the three except clauses.
verify_token(token, t) ==
    LET d == jwt_decode(token, JWT_SECRET, {JWT_ALGORITHM}, t)
    IN  IF d.exc = "none"
        THEN [raised |-> FALSE, value |-> PayloadGet(d.payload[1], "user_id")]
        ELSE IF d.exc = "ExpiredSignatureError"
        THEN [raised |-> FALSE, value |-> None]
        ELSE IF d.exc \in InvalidTokenErrors
        THEN [raised |-> FALSE, value |-> None]
        ELSE [raised |-> FALSE, value |-> None]

(***************************************************************************)
(* Token encryption service (src/services/token_service.py).               *)
(***************************************************************************)
\* the configured key, a string of characters
ENCRYPTION_KEY == <<"k", "e", "y">>

\* the number of characters of the setting that make the Fernet key
KeyLength == 32

\* TokenService.__init__: the key is padded with '0' to 32 characters and
\* cut after 32
FernetKey(encryption_key) ==
    [i \in 1..KeyLength |-> IF i <= Len(encryption_key) THEN encryption_key[i] ELSE "0"]

\* variant of TokenService.__init__: a missing key is padded like a short one
TokenService_init_NoCheck(environ) ==
    [exc |-> "none", message |-> <<>>,
     instance |-> Some([fernet_key |-> FernetKey(EnvironGet(environ, "ENCRYPTION_KEY", <<>>))])]

\* TokenService.__init__: ValueError when ENCRYPTION_KEY is not set or empty
TokenService_init(environ) ==
    LET encryption_key == EnvironGet(environ, "ENCRYPTION_KEY", <<>>)
    IN  IF encryption_key = <<>>
        THEN [exc |-> "ValueError",
              message |-> <<"ENCRYPTION_KEY", " environment variable not set">>,
              instance |-> None]
        ELSE [exc |-> "none", message |-> <<>>,
              instance |-> Some([fernet_key |-> FernetKey(encryption_key)])]

\* AES-CBC under the Fernet key: decryptable with that key only.
FernetCipher(key, iv, plaintext) == [key |-> key, iv |-> iv, plaintext |-> plaintext]
\* HMAC-SHA256 over version, timestamp, iv and ciphertext.
FernetMac(key, ts, iv, ct) == [key |-> key, version |-> 128, timestamp |-> ts, iv |-> iv, ct |-> ct]

\* Fernet.encrypt: version byte, timestamp, fresh iv, ciphertext, hmac.
Fernet_encrypt(key, data, ts, iv) ==
    LET ct == FernetCipher(key, iv, data)
    IN  [fmt |-> "fernet", version |-> 128, timestamp |-> ts, iv |-> iv,
         ciphertext |-> ct, hmac |-> FernetMac(key, ts, iv, ct)]

\* Fernet.decrypt: InvalidToken unless the input is a token authenticated
\* under this key.
Fernet_decrypt(key, token) ==
    IF token.fmt # "fernet"
    THEN [raised |-> TRUE, value |-> None]
    ELSE IF token.version # 128
    THEN [raised |-> TRUE, value |-> None]
    ELSE IF token.hmac # FernetMac(key, token.timestamp, token.iv, token.ciphertext)
    THEN [raised |-> TRUE, value |-> None]
    ELSE [raised |-> FALSE, value |-> Some(token.ciphertext.plaintext)]

\* variant of encrypt_token: the same iv for every call
encrypt_token_FixedIv(token, ts, iv) == Fernet_encrypt(FernetKey(ENCRYPTION_KEY), token, ts, 0)

\* variant of encrypt_token: the token is stored as it is
encrypt_token_Identity(token, ts, iv) == token

\* TokenService.encrypt_token
encrypt_token(token, ts, iv) == Fernet_encrypt(FernetKey(ENCRYPTION_KEY), token, ts, iv)

\* variant of decrypt_token: a failure is answered with no value
decrypt_token_Swallow(encrypted_token) ==
    [raised |-> FALSE,
     value |-> Fernet_decrypt(FernetKey(ENCRYPTION_KEY), encrypted_token).value]

\* TokenService.decrypt_token: the exception is logged and re-raised.
decrypt_token(encrypted_token) == Fernet_decrypt(FernetKey(ENCRYPTION_KEY), encrypted_token)

(***************************************************************************)
(* Persistence service, single-table interface used by every handler       *)
(* (put_item, get_item, delete_item, query_by_prefix, update_item,         *)
(* get_user_by_provider).  A db value is the table together with the log   *)
(* of the store operations one invocation has performed.                   *)
(***************************************************************************)
PROFILE == <<"PROFILE", "">>
AuthSk(provider) == <<"auth#", provider>>
PlatformSk(platform) == <<"platform#", platform>>

Db(items) == [items |-> items, ops |-> <<>>, failAt |-> 0, raised |-> FALSE]

\* a table whose k-th operation ends in a store error
FaultyDb(items, k) == [Db(items) EXCEPT !.failAt = k]

Logged(db, op, user_id, sk) == Append(db.ops, [op |-> op, userId |-> user_id, sk |-> sk])

\* failure semantics of every operation: a store error is raised to the
\* caller, who skips the rest of its work; nothing is read or written
Failing(db) == db.raised \/ Len(db.ops) + 1 = db.failAt
Raise(db) == [db EXCEPT !.raised = TRUE]

\* putItem: unconditional upsert keyed by (userId, sk).
put_item(db, item) ==
    LET key == <<item.userId, item.sk>>
    IN  IF Failing(db) THEN Raise(db)
        ELSE [db EXCEPT !.items = [k \in DOMAIN db.items \cup {key} |->
                                      IF k = key THEN item ELSE db.items[k]],
                        !.ops = Logged(db, "put_item", item.userId, item.sk)]

\* getItem: point lookup, None if absent.
get_item(db, user_id, sk) ==
    IF Failing(db) THEN [db |-> Raise(db), item |-> None]
    ELSE [db |-> [db EXCEPT !.ops = Logged(db, "get_item", user_id, sk)],
          item |-> IF <<user_id, sk>> \in DOMAIN db.items
                   THEN Some(db.items[<<user_id, sk>>]) ELSE None]

\* variant of deleteItem: every record of the user goes
delete_item_AllOfUser(db, user_id, sk) ==
    [db EXCEPT !.items = [k \in {k \in DOMAIN db.items : k[1] # user_id} |-> db.items[k]],
               !.ops = Logged(db, "delete_item", user_id, sk)]

\* deleteItem: unconditional delete, no error if absent.
delete_item(db, user_id, sk) ==
    IF Failing(db) THEN Raise(db)
    ELSE [db EXCEPT !.items = [k \in DOMAIN db.items \ {<<user_id, sk>>} |-> db.items[k]],
                    !.ops = Logged(db, "delete_item", user_id, sk)]

\* queryByPrefix: the items of a user whose sort key starts with the prefix.
query_by_prefix(db, user_id, sk_prefix) ==
    IF Failing(db) THEN [db |-> Raise(db), items |-> {}]
    ELSE [db |-> [db EXCEPT !.ops = Logged(db, "query", user_id, <<sk_prefix, "">>)],
          items |-> {db.items[k] : k \in {k \in DOMAIN db.items :
                                             k[1] = user_id /\ k[2][1] = sk_prefix}}]

\* updateItem: sets the named attributes and leaves the others (the store
\* creates the item from its key when it does not exist).
update_item(db, user_id, sk, updates) ==
    LET key == <<user_id, sk>>
        old == IF key \in DOMAIN db.items THEN db.items[key]
               ELSE [userId |-> user_id, sk |-> sk]
        new == [f \in DOMAIN old \cup DOMAIN updates |->
                    IF f \in DOMAIN updates THEN updates[f] ELSE old[f]]
    IN  IF Failing(db) THEN Raise(db)
        ELSE [db EXCEPT !.items = [k \in DOMAIN db.items \cup {key} |->
                                      IF k = key THEN new ELSE db.items[k]],
                        !.ops = Logged(db, "update_item", user_id, sk)]

\* findUserByProvider: scan filtered to the auth-link records of the
\* provider with the given provider id; the first match, or None.
get_user_by_provider(db, provider, provider_id) ==
    LET matches == {k \in DOMAIN db.items :
                        /\ k[2] = AuthSk(provider)
                        /\ db.items[k].providerId = provider_id}
    IN  IF Failing(db) THEN [db |-> Raise(db), item |-> None]
        ELSE [db |-> [db EXCEPT !.ops = Logged(db, "scan", "*", AuthSk(provider))],
              item |-> IF matches = {} THEN None
                       ELSE Some(db.items[CHOOSE k \in matches : TRUE])]

\* the store operations that change the table
WriteOps == {"put_item", "update_item", "delete_item"}
Writes(ops) == {i \in 1..Len(ops) : ops[i].op \in WriteOps}

(***************************************************************************)
(* Response formatter (src/utils/responses.py).                            *)
(***************************************************************************)
FRONTEND_URL == "http://frontend"

success_response(data, status_code) ==
    [statusCode |-> status_code,
     headers |-> [ContentType |-> "application/json", AccessControlAllowOrigin |-> "*"],
     body |-> data]

error_response(message, status_code) ==
    [statusCode |-> status_code,
     headers |-> [ContentType |-> "application/json", AccessControlAllowOrigin |-> "*"],
     body |-> [error |-> message]]

redirect_response(location, status_code) ==
    [statusCode |-> status_code,
     headers |-> [Location |-> location, AccessControlAllowOrigin |-> "*"],
     body |-> [text |-> ""]]

\* f"{base}{path}?{name}={value}": the value is the sequence of the pieces
\* the f-string concatenates.
Url(base, path, name, value) == [base |-> base, path |-> path, name |-> name, value |-> value]

(***************************************************************************)
(* Base authentication handler (src/handlers/auth/base.py).                *)
(***************************************************************************)
\* generate_internal_user_id: "mmp_" followed by a fresh uuid4
generate_internal_user_id(n) == "mmp_" \o ToString(n)

\* the User Profile item find_or_create_user writes
ProfileItem(user_id, provider_name, email, display_name, avatar_url, timestamp) ==
    [userId |-> user_id, sk |-> PROFILE, email |-> email, displayName |-> display_name,
     avatarUrl |-> avatar_url, primaryAuthProvider |-> provider_name,
     createdAt |-> timestamp, updatedAt |-> timestamp]

\* the Auth Provider Link item find_or_create_user writes
AuthLinkItem(user_id, provider_name, provider_id, email, timestamp) ==
    [userId |-> user_id, sk |-> AuthSk(provider_name), providerId |-> provider_id,
     email |-> email, linked |-> TRUE, linkedAt |-> timestamp]

\* variant of find_or_create_user: a user is created without looking for one
find_or_create_user_NoLookup(db0, provider_name, provider_id, email, display_name, avatar_url, new_user_id, timestamp) ==
    LET db2 == put_item(db0, ProfileItem(new_user_id, provider_name, email, display_name,
                                         avatar_url, timestamp))
        db3 == put_item(db2, AuthLinkItem(new_user_id, provider_name, provider_id, email,
                                          timestamp))
    IN  [user_id |-> new_user_id, db |-> db3, created |-> TRUE]

\* BaseAuthHandler.find_or_create_user
find_or_create_user(db0, provider_name, provider_id, email, display_name, avatar_url, new_user_id, timestamp) ==
    LET existing_user == get_user_by_provider(db0, provider_name, provider_id)
        db1 == existing_user.db
    IN  IF existing_user.item # None
        THEN [user_id |-> existing_user.item[1].userId, db |-> db1, created |-> FALSE]
        ELSE LET db2 == put_item(db1, ProfileItem(new_user_id, provider_name, email,
                                                  display_name, avatar_url, timestamp))
                 db3 == put_item(db2, AuthLinkItem(new_user_id, provider_name, provider_id,
                                                   email, timestamp))
             IN  [user_id |-> new_user_id, db |-> db3, created |-> TRUE]

\* variant of create_session: the token names nobody
create_session_Anonymous(user_id, t) == create_token("", t)

\* BaseAuthHandler.create_session
create_session(user_id, t) == create_token(user_id, t)

(***************************************************************************)
(* Requests.  A query parameter is None or Some(string); Python tests it   *)
(* with "if x" / "if not x", so the empty string counts as absent.         *)
(***************************************************************************)
Present(param) == param # None /\ param[1] # ""

\* str.split(':', maxsplit) on a string given by its colon-free segments:
\* at most maxsplit + 1 parts, the last one keeping the remaining colons.
Split(s, maxsplit) ==
    IF Len(s) <= maxsplit + 1
    THEN [i \in 1..Len(s) |-> <<s[i]>>]
    ELSE [i \in 1..(maxsplit + 1) |->
            IF i <= maxsplit THEN <<s[i]>> ELSE SubSeq(s, maxsplit + 1, Len(s))]

\* what one invocation returns and does: the response, the table with the
\* log of store operations, the provider endpoints called, the number of
\* random values drawn
Out(resp, db, calls, drawn) == [resp |-> resp, db |-> db, calls |-> calls, drawn |-> drawn]

\* str(e) of the error a store operation raises
StoreErrorText == "An error occurred (InternalServerError) when calling the operation"

\* a handler without its except clause: the store's error escapes
Caught_Escapes(generic, out) ==
    IF out.db.raised THEN [out EXCEPT !.resp = [raised |-> StoreErrorText]] ELSE out

\* the catch-all of a handler entry point: an exception that reaches it
\* (here: a store error) is logged and answered with the handler's generic
\* response
Caught(generic, out) == IF out.db.raised THEN [out EXCEPT !.resp = generic] ELSE out

(***************************************************************************)
(* Google SSO handler (src/handlers/auth/google.py).                       *)
(* prov is what Google answers: the outcome of the token endpoint and of   *)
(* the userinfo endpoint.                                                  *)
(***************************************************************************)
\* display_name = user_info.get('name', email.split('@')[0])
EmailLocalPart(email) == IF email = "ann@example.com" THEN "ann"
                         ELSE IF email = "bob@example.com" THEN "bob" ELSE email

\* variant of CallbackHasError: the error parameter is not looked at
CallbackHasError_Ignored(error) == FALSE

\* "if error:" of the four callback handlers
CallbackHasError(error) == Present(error)

\* google.callback_handler
google_callback_handler(db0, event, prov, t, new_user_id) ==
    Caught(redirect_response(Url(FRONTEND_URL, "", "error", <<"callback_failed">>), 302),
    LET q == event.queryStringParameters
        failed == redirect_response(Url(FRONTEND_URL, "", "error", <<"callback_failed">>), 302)
    IN  IF CallbackHasError(q.error)
        THEN Out(redirect_response(Url(FRONTEND_URL, "", "error", <<q.error[1]>>), 302),
                 db0, <<>>, 0)
        ELSE IF ~Present(q.code)
        THEN Out(redirect_response(Url(FRONTEND_URL, "", "error", <<"no_code">>), 302),
                 db0, <<>>, 0)
        ELSE IF prov.token_status # "ok"
        THEN Out(failed, db0, <<"token">>, 0)
        ELSE IF prov.userinfo_status # "ok"
        THEN Out(failed, db0, <<"token", "userinfo">>, 0)
        ELSE LET user_info == prov.user_info
                 email == user_info.email
                 display_name == IF user_info.name # None THEN user_info.name[1]
                                 ELSE EmailLocalPart(email)
                 avatar_url == IF user_info.picture # None THEN user_info.picture[1] ELSE ""
                 r == find_or_create_user(db0, "google", user_info.sub, email,
                                          display_name, avatar_url, new_user_id, t)
                 session_token == create_session(r.user_id, t)
             IN  Out(redirect_response(Url(FRONTEND_URL, "", "session", <<session_token>>), 302),
                     r.db, <<"token", "userinfo">>, 0))

\* variant of store_platform_tokens: the access token is stored as it came
store_platform_tokens_Plain(db, platform_name, user_id, platform_user_id, access_token, refresh_token, expires_in, scope, t, iv) ==
    put_item(db, [userId |-> user_id, sk |-> PlatformSk(platform_name),
                  platformUserId |-> platform_user_id,
                  accessToken |-> access_token,
                  refreshToken |-> encrypt_token(refresh_token, t, iv + 2),
                  expiresAt |-> t, expiresIn |-> expires_in,
                  scope |-> scope, connectedAt |-> t])

(***************************************************************************)
(* Base platform handler (src/handlers/platforms/base.py).                 *)
(***************************************************************************)
\* BasePlatformHandler.store_platform_tokens; iv is the number of random
\* values drawn before the call, each encryption draws a fresh one.
store_platform_tokens(db, platform_name, user_id, platform_user_id, access_token, refresh_token, expires_in, scope, t, iv) ==
    LET encrypted_access_token == encrypt_token(access_token, t, iv + 1)
        encrypted_refresh_token == encrypt_token(refresh_token, t, iv + 2)
    IN  put_item(db, [userId |-> user_id, sk |-> PlatformSk(platform_name),
                      platformUserId |-> platform_user_id,
                      accessToken |-> encrypted_access_token,
                      refreshToken |-> encrypted_refresh_token,
                      expiresAt |-> t, expiresIn |-> expires_in,
                      scope |-> scope, connectedAt |-> t])

\* variant of get_platform_tokens: the record of the platform, whoever
\* its user is
get_platform_tokens_AnyUser(db, platform_name, user_id) ==
    LET held == {k \in DOMAIN db.items : k[2] = PlatformSk(platform_name)}
    IN  get_item(db, IF held # {} THEN (CHOOSE k \in held : TRUE)[1] ELSE user_id,
                 PlatformSk(platform_name))

\* BasePlatformHandler.get_platform_tokens
get_platform_tokens(db, platform_name, user_id) == get_item(db, user_id, PlatformSk(platform_name))

\* dict.get(key, default) on an optional field of a provider response
GetOr(opt, default) == IF opt # None THEN opt[1] ELSE default

(***************************************************************************)
(* Platform callbacks (src/handlers/platforms/{spotify,youtube,            *)
(* soundcloud}.py).  prov is what the platform answers: token endpoint     *)
(* outcome and data, identity endpoint outcome and data.                   *)
(***************************************************************************)
Dashboard(value) == redirect_response(Url(FRONTEND_URL, "/dashboard", "error", value), 302)

\* variant of StateParts: the state is split at every colon
StateParts_Strict(state, maxsplit) == Split(state, Len(state))

\* state.split(':', 1) of Spotify and YouTube, state.split(':', 2) of SoundCloud
StateParts(state, maxsplit) == Split(state, maxsplit)

\* spotify.callback_handler
spotify_callback_handler(db0, event, prov, t, iv) ==
    Caught(Dashboard(<<"connection_failed">>),
    LET q == event.queryStringParameters
        failed == Dashboard(<<"connection_failed">>)
    IN  IF CallbackHasError(q.error)
        THEN Out(Dashboard(<<q.error[1]>>), db0, <<>>, 0)
        ELSE IF ~Present(q.code) \/ q.state = <<>>
        THEN Out(Dashboard(<<"invalid_callback">>), db0, <<>>, 0)
        ELSE LET parts == StateParts(q.state, 1)
             IN  IF Len(parts) # 2
                 THEN Out(Dashboard(<<"invalid_state">>), db0, <<>>, 0)
                 ELSE LET user_id == parts[1][1]
                          token_data == prov.token_data
                      IN  IF prov.token_status # "ok"
                          THEN Out(failed, db0, <<"token">>, 0)
                          ELSE IF prov.me_status # "ok"
                          THEN Out(failed, db0, <<"token", "me">>, 0)
                          ELSE IF token_data.refresh_token = None \/ token_data.expires_in = None
                          THEN Out(failed, db0, <<"token", "me">>, 0)
                          ELSE Out(redirect_response(
                                       Url(FRONTEND_URL, "/dashboard", "spotify", <<"connected">>), 302),
                                   store_platform_tokens(db0, "spotify", user_id, prov.me.id,
                                       token_data.access_token, token_data.refresh_token[1],
                                       token_data.expires_in[1], GetOr(token_data.scope, ""), t, iv),
                                   <<"token", "me">>, 2))

\* youtube.callback_handler
youtube_callback_handler(db0, event, prov, t, iv) ==
    Caught(Dashboard(<<"youtube_connection_failed">>),
    LET q == event.queryStringParameters
        failed == Dashboard(<<"youtube_connection_failed">>)
    IN  IF CallbackHasError(q.error)
        THEN Out(Dashboard(<<"youtube_", q.error[1]>>), db0, <<>>, 0)
        ELSE IF ~Present(q.code) \/ q.state = <<>>
        THEN Out(Dashboard(<<"youtube_invalid_callback">>), db0, <<>>, 0)
        ELSE LET parts == StateParts(q.state, 1)
             IN  IF Len(parts) # 2
                 THEN Out(Dashboard(<<"youtube_invalid_state">>), db0, <<>>, 0)
                 ELSE LET user_id == parts[1][1]
                          token_data == prov.token_data
                      IN  IF prov.token_status # "ok"
                          THEN Out(failed, db0, <<"token">>, 0)
                          ELSE IF prov.me_status # "ok"
                          THEN Out(failed, db0, <<"token", "me">>, 0)
                          ELSE IF prov.channel = None
                          THEN Out(Dashboard(<<"youtube_no_channel">>), db0, <<"token", "me">>, 0)
                          ELSE IF token_data.expires_in = None
                          THEN Out(failed, db0, <<"token", "me">>, 0)
                          ELSE LET db1 == store_platform_tokens(db0, "youtube", user_id,
                                              prov.channel[1].id, token_data.access_token,
                                              GetOr(token_data.refresh_token, Text("")),
                                              token_data.expires_in[1],
                                              GetOr(token_data.scope, ""), t, iv)
                                   db2 == update_item(db1, user_id, PlatformSk("youtube"),
                                              [channelTitle |-> prov.channel[1].title])
                               IN  Out(redirect_response(
                                           Url(FRONTEND_URL, "/dashboard", "youtube", <<"connected">>), 302),
                                       db2, <<"token", "me">>, 2))

\* variant of CodeVerifier: the random part of the state is taken
CodeVerifier_Random(parts) == parts[2]

\* soundcloud.callback_handler: code_verifier = parts[2], the third part of
\* the state, which exchange_code_for_token sends to the token endpoint
CodeVerifier(parts) == parts[3]

\* soundcloud.callback_handler
soundcloud_callback_handler(db0, event, prov, t, iv) ==
    Caught(Dashboard(<<"soundcloud_connection_failed">>),
    LET q == event.queryStringParameters
        failed == Dashboard(<<"soundcloud_connection_failed">>)
    IN  IF CallbackHasError(q.error)
        THEN Out(Dashboard(<<"soundcloud_", q.error[1]>>), db0, <<>>, 0)
        ELSE IF ~Present(q.code) \/ q.state = <<>>
        THEN Out(Dashboard(<<"soundcloud_invalid_callback">>), db0, <<>>, 0)
        ELSE LET parts == StateParts(q.state, 2)
             IN  IF Len(parts) # 3
                 THEN Out(Dashboard(<<"soundcloud_invalid_state">>), db0, <<>>, 0)
                 ELSE LET user_id == parts[1][1]
                          code_verifier == CodeVerifier(parts)
                          token_data == prov.token_data
                      IN  IF prov.token_status # "ok"
                          THEN Out(failed, db0, <<"token">>, 0)
                          ELSE IF prov.me_status # "ok"
                          THEN Out(failed, db0, <<"token", "me">>, 0)
                          ELSE LET db1 == store_platform_tokens(db0, "soundcloud", user_id,
                                              prov.me.id, token_data.access_token,
                                              GetOr(token_data.refresh_token, Text("")),
                                              GetOr(token_data.expires_in, 31536000),
                                              GetOr(token_data.scope, "non-expiring"), t, iv)
                                   db2 == update_item(db1, user_id, PlatformSk("soundcloud"),
                                              [username |-> prov.me.username,
                                               permalink |-> prov.me.permalink,
                                               avatarUrl |-> prov.me.avatar_url])
                               IN  Out(redirect_response(
                                           Url(FRONTEND_URL, "/dashboard", "soundcloud", <<"connected">>), 302),
                                       db2, <<"token", "me">>, 2))

(***************************************************************************)
(* User management handlers (src/handlers/user.py).                        *)
(* A header value is None or Some([scheme, token]): the string             *)
(* scheme + token, e.g. "Bearer " followed by a session token.             *)
(***************************************************************************)
\* headers.get('Authorization') or headers.get('authorization') or ''
AuthHeader(event) ==
    IF event.headers.Authorization # None THEN event.headers.Authorization
    ELSE event.headers.authorization

\* variant of get_user_from_session: the token is read, not verified
get_user_from_session_NoVerify(event, t) ==
    LET auth_header == AuthHeader(event)
    IN  IF auth_header = None \/ auth_header[1].scheme # "Bearer "
        THEN [exc |-> "ValueError", message |-> "No valid authorization header", user_id |-> ""]
        ELSE [exc |-> "none", message |-> "", user_id |-> auth_header[1].token.payload.user_id]

\* user.get_user_from_session: the user id, or ValueError
get_user_from_session(event, t) ==
    LET auth_header == AuthHeader(event)
    IN  IF auth_header = None \/ auth_header[1].scheme # "Bearer "
        THEN [exc |-> "ValueError", message |-> "No valid authorization header", user_id |-> ""]
        ELSE LET user_id == verify_token(auth_header[1].token, t).value
             IN  IF user_id = None \/ user_id[1] = ""
                 THEN [exc |-> "ValueError", message |-> "Invalid session token", user_id |-> ""]
                 ELSE [exc |-> "none", message |-> "", user_id |-> user_id[1]]

\* item.get(field, default)
Field(item, f, default) == IF f \in DOMAIN item THEN item[f] ELSE default

\* user.profile_handler
profile_handler(db0, event, t) ==
    Caught(error_response(StoreErrorText, 500),
    LET s == get_user_from_session(event, t)
    IN  IF s.exc = "ValueError"
        THEN Out(error_response(s.message, 401), db0, <<>>, 0)
        ELSE LET got == get_item(db0, s.user_id, PROFILE)
             IN  IF got.item = None
                 THEN Out(error_response("User not found", 404), got.db, <<>>, 0)
                 ELSE Out(success_response(
                              [f \in DOMAIN got.item[1] \ {"sk"} |-> got.item[1][f]], 200),
                          got.db, <<>>, 0))

\* user.auth_providers_handler
auth_providers_handler(db0, event, t) ==
    Caught(error_response(StoreErrorText, 500),
    LET s == get_user_from_session(event, t)
    IN  IF s.exc = "ValueError"
        THEN Out(error_response(s.message, 401), db0, <<>>, 0)
        ELSE LET providers == query_by_prefix(db0, s.user_id, "auth#")
             IN  Out(success_response(
                         [providers |-> {[provider |-> item.sk[2],
                                          email |-> Field(item, "email", ""),
                                          linked |-> Field(item, "linked", FALSE),
                                          linkedAt |-> Field(item, "linkedAt", "")]
                                         : item \in providers.items}], 200),
                     providers.db, <<>>, 0))

\* variant of PlatformEntry: the stored access token is listed too
PlatformEntry_WithTokens(item) ==
    [platform |-> item.sk[2],
     platformUserId |-> Field(item, "platformUserId", ""),
     connected |-> TRUE,
     connectedAt |-> Field(item, "connectedAt", ""),
     scope |-> Field(item, "scope", ""),
     accessToken |-> Field(item, "accessToken", "")]

\* one element of platform_list in user.platforms_handler
PlatformEntry(item) ==
    [platform |-> item.sk[2],
     platformUserId |-> Field(item, "platformUserId", ""),
     connected |-> TRUE,
     connectedAt |-> Field(item, "connectedAt", ""),
     scope |-> Field(item, "scope", "")]

\* user.platforms_handler
platforms_handler(db0, event, t) ==
    Caught(error_response(StoreErrorText, 500),
    LET s == get_user_from_session(event, t)
    IN  IF s.exc = "ValueError"
        THEN Out(error_response(s.message, 401), db0, <<>>, 0)
        ELSE LET platforms == query_by_prefix(db0, s.user_id, "platform#")
             IN  Out(success_response(
                         [platforms |-> {PlatformEntry(item) : item \in platforms.items}], 200),
                     platforms.db, <<>>, 0))

\* variant of delete_platform_handler: 404 when the record is absent
delete_platform_handler_CheckExists(db0, event, t) ==
    LET s == get_user_from_session(event, t)
        platform == event.pathParameters.platform
    IN  IF s.exc = "ValueError"
        THEN Out(error_response(s.message, 401), db0, <<>>, 0)
        ELSE IF ~Present(platform)
        THEN Out(error_response("Platform name required", 400), db0, <<>>, 0)
        ELSE LET got == get_item(db0, s.user_id, PlatformSk(platform[1]))
             IN  IF got.item = None
                 THEN Out(error_response("Platform not connected", 404), got.db, <<>>, 0)
                 ELSE Out(success_response(
                              [message |-> <<platform[1], " disconnected successfully">>], 200),
                          delete_item(got.db, s.user_id, PlatformSk(platform[1])), <<>>, 0)

\* the variant that looks at the path before the session
delete_platform_handler_PathFirst(db0, event, t) ==
    LET s == get_user_from_session(event, t)
        platform == event.pathParameters.platform
    IN  IF ~Present(platform)
        THEN Out(error_response("Platform name required", 400), db0, <<>>, 0)
        ELSE IF s.exc = "ValueError"
        THEN Out(error_response(s.message, 401), db0, <<>>, 0)
        ELSE Out(success_response(
                     [message |-> <<platform[1], " disconnected successfully">>], 200),
                 delete_item(db0, s.user_id, PlatformSk(platform[1])), <<>>, 0)

\* user.delete_platform_handler
delete_platform_handler(db0, event, t) ==
    Caught(error_response(StoreErrorText, 500),
    LET s == get_user_from_session(event, t)
        platform == event.pathParameters.platform
    IN  IF s.exc = "ValueError"
        THEN Out(error_response(s.message, 401), db0, <<>>, 0)
        ELSE IF ~Present(platform)
        THEN Out(error_response("Platform name required", 400), db0, <<>>, 0)
        ELSE Out(success_response(
                     [message |-> <<platform[1], " disconnected successfully">>], 200),
                 delete_item(db0, s.user_id, PlatformSk(platform[1])), <<>>, 0))

(***************************************************************************)
(* Platform connect and refresh (src/handlers/platforms/).  The body of a  *)
(* request is [kind, sessionToken]: JSON text with an optional             *)
(* sessionToken field, or text that is not JSON.  prov is what the token   *)
(* endpoint answers to a refresh.                                          *)
(***************************************************************************)
\* variant of BasePlatformHandler.get_user_from_session: the token is read,
\* not verified
platform_get_user_from_session_NoVerify(event, t) ==
    LET auth_header == AuthHeader(event)
    IN  IF auth_header # None /\ auth_header[1].scheme = "Bearer "
        THEN Some(auth_header[1].token.payload.user_id)
        ELSE IF event.body.kind = "json" /\ event.body.sessionToken # None
        THEN Some(event.body.sessionToken[1].payload.user_id)
        ELSE None

\* a header "Bearer " with nothing after the prefix: auth_header[7:] is ''
EmptyToken == Text("")

\* the variant that tries the body's token when the header's does not verify
platform_get_user_from_session_TryBody(event, t) ==
    LET auth_header == AuthHeader(event)
        bearer == /\ auth_header # None
                  /\ auth_header[1].scheme = "Bearer "
                  /\ auth_header[1].token # EmptyToken
        from_header == IF bearer THEN verify_token(auth_header[1].token, t).value ELSE None
    IN  IF from_header # None THEN from_header
        ELSE IF event.body.kind = "json" /\ event.body.sessionToken \notin {None, Some(EmptyToken)}
        THEN verify_token(event.body.sessionToken[1], t).value
        ELSE None

\* BasePlatformHandler.get_user_from_session: the token of a Bearer header,
\* else (no header, another scheme, an empty token) the sessionToken of a
\* JSON body; verify_token's answer for it.  An absent body, a body that is
\* not JSON and a body without the field give no token.
platform_get_user_from_session(event, t) ==
    LET auth_header == AuthHeader(event)
        header_token ==
            IF auth_header # None /\ auth_header[1].scheme = "Bearer "
            THEN Some(auth_header[1].token)
            ELSE None
        session_token ==
            IF header_token # None /\ header_token[1] # EmptyToken THEN header_token
            ELSE IF event.body.kind = "json" THEN event.body.sessionToken
            ELSE None
    IN  IF session_token = None \/ session_token[1] = EmptyToken THEN None
        ELSE verify_token(session_token[1], t).value

\* if not user_id
NoUser(user_id) == user_id = None \/ user_id[1] = ""

\* variant of update_access_token: the whole record is written anew
update_access_token_Replace(db, platform_name, user_id, access_token, expires_in, t, iv) ==
    put_item(db, [userId |-> user_id, sk |-> PlatformSk(platform_name),
                  accessToken |-> encrypt_token(access_token, t, iv + 1),
                  expiresAt |-> t, expiresIn |-> expires_in])

\* BasePlatformHandler.update_access_token
update_access_token(db, platform_name, user_id, access_token, expires_in, t, iv) ==
    update_item(db, user_id, PlatformSk(platform_name),
                [accessToken |-> encrypt_token(access_token, t, iv + 1),
                 expiresAt |-> t,
                 expiresIn |-> expires_in])

\* the authorization URL a connect handler builds
AuthUrl(base, state) == [base |-> base, state |-> state]

\* f"{user_id}:{secrets.token_urlsafe(32)}"
ConnectState(user_id) == <<user_id, "rnd">>

\* spotify.connect_handler
spotify_connect_handler(db0, event, t) ==
    Caught(error_response(StoreErrorText, 500),
    LET user_id == platform_get_user_from_session(event, t)
    IN  IF NoUser(user_id)
        THEN Out(error_response("Authentication required", 401), db0, <<>>, 0)
        ELSE Out(success_response(
                     [authUrl |-> AuthUrl("https://accounts.spotify.com/authorize",
                                          ConnectState(user_id[1])),
                      state |-> ConnectState(user_id[1])], 200),
                 db0, <<>>, 0))

\* variant of AlreadyConnected: the flow starts again
AlreadyConnected_Reconnect(message) ==
    success_response([authUrl |-> AuthUrl("", <<>>), state |-> <<>>], 200)

\* what connect answers when the platform is connected already
AlreadyConnected(message) ==
    success_response([message |-> message, connected |-> TRUE], 200)

\* youtube.connect_handler
youtube_connect_handler(db0, event, t) ==
    Caught(error_response(StoreErrorText, 500),
    LET user_id == platform_get_user_from_session(event, t)
    IN  IF NoUser(user_id)
        THEN Out(error_response("Authentication required", 401), db0, <<>>, 0)
        ELSE LET existing_tokens == get_platform_tokens(db0, "youtube", user_id[1])
             IN  IF existing_tokens.item # None
                 THEN Out(AlreadyConnected("YouTube Music already connected"),
                          existing_tokens.db, <<>>, 0)
                 ELSE Out(success_response(
                              [authUrl |-> AuthUrl("https://accounts.google.com/o/oauth2/v2/auth",
                                                   ConnectState(user_id[1])),
                               state |-> ConnectState(user_id[1])], 200),
                          existing_tokens.db, <<>>, 0))

\* base64url(sha256(code_verifier)) without padding: a value that names
\* what was hashed and tells nothing else; the string is given by its
\* colon-free segments
S256(code_verifier) == [method |-> "S256", hashed |-> code_verifier]

\* soundcloud.generate_pkce_pair: token_urlsafe has no colon
generate_pkce_pair ==
    LET code_verifier == "verifier"
    IN  [code_verifier |-> code_verifier, code_challenge |-> S256(<<code_verifier>>)]

\* the SoundCloud authorization URL: state, code_challenge and
\* code_challenge_method among its parameters
PkceAuthUrl(base, state, code_challenge) ==
    [base |-> base, state |-> state, code_challenge |-> code_challenge,
     code_challenge_method |-> "S256"]

\* soundcloud.connect_handler: the state carries the PKCE code verifier
soundcloud_connect_handler(db0, event, t) ==
    Caught(error_response(StoreErrorText, 500),
    LET user_id == platform_get_user_from_session(event, t)
    IN  IF NoUser(user_id)
        THEN Out(error_response("Authentication required", 401), db0, <<>>, 0)
        ELSE LET existing_tokens == get_platform_tokens(db0, "soundcloud", user_id[1])
                 pkce == generate_pkce_pair
                 state == ConnectState(user_id[1]) \o <<pkce.code_verifier>>
             IN  IF existing_tokens.item # None
                 THEN Out(AlreadyConnected("SoundCloud already connected"),
                          existing_tokens.db, <<>>, 0)
                 ELSE Out(success_response(
                              [authUrl |-> PkceAuthUrl("https://secure.soundcloud.com/authorize",
                                                       state, pkce.code_challenge),
                               state |-> state], 200),
                          existing_tokens.db, <<>>, 0))

\* str(e) of the exceptions a refresh can end in
KeyErrorText(key) == IF key = "refreshToken" THEN "'refreshToken'" ELSE "'expires_in'"
InvalidTokenText == ""
HTTPStatusErrorText == "Client error '400 Bad Request'"

\* the part of a refresh after the refresh token is read, shared by Spotify
\* and YouTube: decrypt, ask the provider, update_access_token, answer
RefreshWithToken(db1, platform_name, user_id, encrypted_refresh_token, prov, t, iv) ==
    LET refresh_token == decrypt_token(encrypted_refresh_token)
        new_token_data == prov.data
    IN  IF refresh_token.raised
        THEN Out(error_response(InvalidTokenText, 500), db1, <<>>, 0)
        ELSE IF prov.status # "ok"
        THEN Out(error_response(HTTPStatusErrorText, 500), db1, <<"token">>, 0)
        ELSE IF new_token_data.expires_in = None
        THEN Out(error_response(KeyErrorText("expires_in"), 500), db1, <<"token">>, 0)
        ELSE Out(success_response([accessToken |-> new_token_data.access_token,
                                   expiresIn |-> new_token_data.expires_in[1]], 200),
                 update_access_token(db1, platform_name, user_id,
                                     new_token_data.access_token,
                                     new_token_data.expires_in[1], t, iv),
                 <<"token">>, 1)

\* spotify.refresh_handler
spotify_refresh_handler(db0, event, prov, t, iv) ==
    Caught(error_response(StoreErrorText, 500),
    LET user_id == platform_get_user_from_session(event, t)
    IN  IF NoUser(user_id)
        THEN Out(error_response("Authentication required", 401), db0, <<>>, 0)
        ELSE LET token_data == get_platform_tokens(db0, "spotify", user_id[1])
             IN  IF token_data.item = None
                 THEN Out(error_response("Spotify not connected", 404), token_data.db, <<>>, 0)
                 ELSE IF "refreshToken" \notin DOMAIN token_data.item[1]
                 THEN Out(error_response(KeyErrorText("refreshToken"), 500),
                          token_data.db, <<>>, 0)
                 ELSE RefreshWithToken(token_data.db, "spotify", user_id[1],
                                       token_data.item[1].refreshToken, prov, t, iv))

\* token_data.get('refreshToken') is missing or empty
NoStoredToken(item, f) == f \notin DOMAIN item \/ ~Truthy(item[f])

\* variant of the YouTube refresh handler: a missing record is taken for a
\* record without a refresh token
youtube_refresh_handler_NoRecordCheck(db0, event, prov, t, iv) ==
    LET user_id == platform_get_user_from_session(event, t)
    IN  IF NoUser(user_id)
        THEN Out(error_response("Authentication required", 401), db0, <<>>, 0)
        ELSE LET token_data == get_platform_tokens(db0, "youtube", user_id[1])
             IN  IF token_data.item = None
                    \/ NoStoredToken(token_data.item[1], "refreshToken")
                 THEN Out(error_response(
                              "No refresh token available - please reconnect YouTube Music", 400),
                          token_data.db, <<>>, 0)
                 ELSE RefreshWithToken(token_data.db, "youtube", user_id[1],
                                       token_data.item[1].refreshToken, prov, t, iv)

\* youtube.refresh_handler
youtube_refresh_handler(db0, event, prov, t, iv) ==
    Caught(error_response(StoreErrorText, 500),
    LET user_id == platform_get_user_from_session(event, t)
    IN  IF NoUser(user_id)
        THEN Out(error_response("Authentication required", 401), db0, <<>>, 0)
        ELSE LET token_data == get_platform_tokens(db0, "youtube", user_id[1])
             IN  IF token_data.item = None
                 THEN Out(error_response("YouTube Music not connected", 404),
                          token_data.db, <<>>, 0)
                 ELSE IF NoStoredToken(token_data.item[1], "refreshToken")
                 THEN Out(error_response(
                              "No refresh token available - please reconnect YouTube Music", 400),
                          token_data.db, <<>>, 0)
                 ELSE RefreshWithToken(token_data.db, "youtube", user_id[1],
                                       token_data.item[1].refreshToken, prov, t, iv))

\* variant of SoundCloudUpdates: the refresh token is kept as it is
SoundCloudUpdates_KeepRefresh(new_token_data, t, iv) ==
    [accessToken |-> encrypt_token(new_token_data.access_token, t, iv + 1),
     expiresIn |-> GetOr(new_token_data.expires_in, 31536000)]

\* the updates of a SoundCloud refresh: the refresh token only when the
\* provider sent a new one
SoundCloudUpdates(new_token_data, t, iv) ==
    LET updates == [accessToken |-> encrypt_token(new_token_data.access_token, t, iv + 1),
                    expiresIn |-> GetOr(new_token_data.expires_in, 31536000)]
    IN  IF new_token_data.refresh_token # None
        THEN [f \in {"accessToken", "expiresIn", "refreshToken"} |->
                IF f = "refreshToken"
                THEN encrypt_token(new_token_data.refresh_token[1], t, iv + 2)
                ELSE updates[f]]
        ELSE updates

\* soundcloud.refresh_handler
soundcloud_refresh_handler(db0, event, prov, t, iv) ==
    Caught(error_response(StoreErrorText, 500),
    LET user_id == platform_get_user_from_session(event, t)
    IN  IF NoUser(user_id)
        THEN Out(error_response("Authentication required", 401), db0, <<>>, 0)
        ELSE LET token_data == get_platform_tokens(db0, "soundcloud", user_id[1])
                 db1 == token_data.db
             IN  IF token_data.item = None
                 THEN Out(error_response("SoundCloud not connected", 404), db1, <<>>, 0)
                 ELSE LET item == token_data.item[1]
                      IN  IF NoStoredToken(item, "refreshToken")
                          THEN IF NoStoredToken(item, "accessToken")
                               THEN Out(error_response(
                                            "No access token available - please reconnect SoundCloud",
                                            400), db1, <<>>, 0)
                               ELSE LET access_token == decrypt_token(item.accessToken)
                                    IN  IF access_token.raised
                                        THEN Out(error_response(InvalidTokenText, 500),
                                                 db1, <<>>, 0)
                                        ELSE Out(success_response(
                                                     [accessToken |-> access_token.value[1],
                                                      expiresIn |-> Field(item, "expiresIn", 31536000)],
                                                     200), db1, <<>>, 0)
                          ELSE LET refresh_token == decrypt_token(item.refreshToken)
                                   new_token_data == prov.data
                               IN  IF refresh_token.raised
                                   THEN Out(error_response(InvalidTokenText, 500), db1, <<>>, 0)
                                   ELSE IF prov.status # "ok"
                                   THEN Out(error_response(HTTPStatusErrorText, 500),
                                            db1, <<"token">>, 0)
                                   ELSE Out(success_response(
                                                [accessToken |-> new_token_data.access_token,
                                                 expiresIn |-> GetOr(new_token_data.expires_in,
                                                                     31536000)], 200),
                                            update_item(db1, user_id[1], PlatformSk("soundcloud"),
                                                        SoundCloudUpdates(new_token_data, t, iv)),
                                            <<"token">>,
                                            IF new_token_data.refresh_token # None THEN 2 ELSE 1))

(***************************************************************************)
(* Google login and SoundCloud search.  A query string value is a          *)
(* sequence of characters; api is what the SoundCloud tracks endpoint       *)
(* answers.                                                                *)
(***************************************************************************)
\* google.login_handler: a fresh state and the authorization URL
google_login_handler(db0, event) ==
    Out(success_response([authUrl |-> AuthUrl("https://accounts.google.com/o/oauth2/v2/auth",
                                              <<"rnd">>),
                          state |-> <<"rnd">>], 200),
        db0, <<>>, 0)

\* the characters str.strip removes, of those a query here is made of
WhiteSpace == {" ", "\t"}

RECURSIVE LStrip(_)
LStrip(s) == IF s # <<>> /\ Head(s) \in WhiteSpace THEN LStrip(Tail(s)) ELSE s

RECURSIVE RStrip(_)
RStrip(s) ==
    IF s # <<>> /\ s[Len(s)] \in WhiteSpace THEN RStrip(SubSeq(s, 1, Len(s) - 1)) ELSE s

\* variant of str.strip: the text as it came
Strip_Keep(s) == s

\* str.strip
Strip(s) == RStrip(LStrip(s))

\* the tracks of a search answer that have an id, in the frontend's shape
NormalizedTracks(collection) ==
    LET kept == SelectSeq(collection, LAMBDA item : item.id # None /\ item.id[1] # 0)
    IN  [i \in 1..Len(kept) |->
            [id |-> <<"soundcloud-", kept[i].id[1]>>, platform |-> "soundcloud",
             name |-> GetOr(kept[i].title, "Unknown Track")]]

\* soundcloud.search_handler
soundcloud_search_handler(db0, event, api, t) ==
    Caught(error_response(StoreErrorText, 500),
    LET user_id == platform_get_user_from_session(event, t)
        query_params == event.queryStringParameters
        query == IF query_params = None THEN <<>>
                 ELSE Strip(GetOr(query_params[1].q, <<>>))
    IN  IF NoUser(user_id)
        THEN Out(error_response("Authentication required", 401), db0, <<>>, 0)
        ELSE IF query = <<>>
        THEN Out(error_response("Query parameter 'q' is required", 400), db0, <<>>, 0)
        ELSE LET token_data == get_platform_tokens(db0, "soundcloud", user_id[1])
                 db1 == token_data.db
             IN  IF token_data.item = None
                 THEN Out(error_response(
                              "SoundCloud not connected. Please connect your SoundCloud account first.",
                              404), db1, <<>>, 0)
                 ELSE IF NoStoredToken(token_data.item[1], "accessToken")
                 THEN Out(error_response("No access token found", 500), db1, <<>>, 0)
                 ELSE IF decrypt_token(token_data.item[1].accessToken).raised
                 THEN Out(error_response(InvalidTokenText, 500), db1, <<>>, 0)
                 ELSE IF api.status # "ok"
                 THEN Out(error_response("SoundCloud API error: 401", 500),
                          db1, <<"tracks">>, 0)
                 ELSE Out(success_response([tracks |-> NormalizedTracks(api.collection)], 200),
                          db1, <<"tracks">>, 0))

(***************************************************************************)
(* The persistence methods of src/services/dynamodb_service.py and the     *)
(* refresh handler of src/handlers/spotify_auth.py that uses them.  The    *)
(* users table and the tokens table are kept in one function: their keys   *)
(* (PROFILE, platform#<name>) never meet.  fault says that the table       *)
(* request ends in a ClientError; a result is [raised, value, items,       *)
(* requests], requests counting the table requests made.                   *)
(***************************************************************************)
Result(raised, value, items, requests) ==
    [raised |-> raised, value |-> value, items |-> items, requests |-> requests]

Upsert(items, item) ==
    [k \in DOMAIN items \cup {<<item.userId, item.sk>>} |->
        IF k = <<item.userId, item.sk>> THEN item ELSE items[k]]

\* DynamoDBService.store_user
store_user(items, user_id, email, display_name, t, fault) ==
    IF fault THEN Result(TRUE, None, items, 1)
    ELSE Result(FALSE, None,
                Upsert(items, [userId |-> user_id, sk |-> PROFILE, email |-> email,
                               displayName |-> display_name,
                               createdAt |-> t, updatedAt |-> t]), 1)

\* DynamoDBService.get_user: on a ClientError it logs and returns None
get_user(items, user_id, fault) ==
    IF fault THEN Result(FALSE, None, items, 1)
    ELSE Result(FALSE,
                IF <<user_id, PROFILE>> \in DOMAIN items
                THEN Some(items[<<user_id, PROFILE>>]) ELSE None,
                items, 1)

\* 30 * 24 * 60 * 60 seconds, in days
TokenTtlDays == 30

\* DynamoDBService.store_token
store_token(items, user_id, platform, access_token, refresh_token, expires_in, scope, t, fault) ==
    IF fault THEN Result(TRUE, None, items, 1)
    ELSE Result(FALSE, None,
                Upsert(items, [userId |-> user_id, sk |-> PlatformSk(platform),
                               platform |-> platform,
                               accessToken |-> access_token,
                               refreshToken |-> refresh_token,
                               expiresAt |-> <<t, expires_in>>, scope |-> scope,
                               createdAt |-> t, updatedAt |-> t,
                               ttl |-> t + TokenTtlDays]), 1)

\* DynamoDBService.get_token: on a ClientError it logs and returns None
get_token(items, user_id, platform, fault) ==
    IF fault THEN Result(FALSE, None, items, 1)
    ELSE Result(FALSE,
                IF <<user_id, PlatformSk(platform)>> \in DOMAIN items
                THEN Some(items[<<user_id, PlatformSk(platform)>>]) ELSE None,
                items, 1)

\* DynamoDBService.update_access_token: SET accessToken, expiresAt, updatedAt
\* (the table creates the item from its key when it does not exist)
DynamoDBService_update_access_token(items, user_id, platform, access_token, expires_in, t, fault) ==
    IF fault THEN Result(TRUE, None, items, 1)
    ELSE LET key == <<user_id, PlatformSk(platform)>>
             old == IF key \in DOMAIN items THEN items[key]
                    ELSE [userId |-> user_id, sk |-> PlatformSk(platform)]
             updates == [accessToken |-> access_token, expiresAt |-> <<t, expires_in>>,
                         updatedAt |-> t]
         IN  Result(FALSE, None,
                    Upsert(items, [f \in DOMAIN old \cup DOMAIN updates |->
                                      IF f \in DOMAIN updates THEN updates[f] ELSE old[f]]), 1)

\* DynamoDBService.delete_token
delete_token(items, user_id, platform, fault) ==
    IF fault THEN Result(TRUE, None, items, 1)
    ELSE Result(FALSE, None,
                [k \in DOMAIN items \ {<<user_id, PlatformSk(platform)>>} |-> items[k]], 1)

\* what spotify_auth.refresh_handler answers and leaves in the tables
Answer(resp, items, calls, drawn) == Out(resp, Db(items), calls, drawn)

\* spotify_auth.refresh_handler: the sessionToken of the body, else the
\* bearer token of the header; faults says which table requests fail
spotify_auth_refresh_handler(items, event, prov, t, iv, faults) ==
    LET auth_header == AuthHeader(event)
        session_token ==
            IF event.body.sessionToken # None THEN event.body.sessionToken
            ELSE IF auth_header # None /\ auth_header[1].scheme = "Bearer "
            THEN Some(auth_header[1].token)
            ELSE None
    IN  IF event.body.kind # "json"
        THEN Answer(error_response("Expecting value: line 1 column 1 (char 0)", 500),
                    items, <<>>, 0)
        ELSE IF session_token = None
        THEN Answer(error_response("No session token provided", 401), items, <<>>, 0)
        ELSE LET user_id == verify_token(session_token[1], t).value
             IN  IF NoUser(user_id)
                 THEN Answer(error_response("Invalid session token", 401), items, <<>>, 0)
                 ELSE LET token_data == get_token(items, user_id[1], "spotify", faults.read)
                      IN  IF token_data.raised
                          THEN Answer(error_response("ClientError", 500), items, <<>>, 0)
                          ELSE IF token_data.value = None
                          THEN Answer(error_response("No Spotify account connected", 404),
                                      items, <<>>, 0)
                          ELSE IF "refreshToken" \notin DOMAIN token_data.value[1]
                          THEN Answer(error_response(KeyErrorText("refreshToken"), 500),
                                      items, <<>>, 0)
                          ELSE LET refresh_token ==
                                       decrypt_token(token_data.value[1].refreshToken)
                                   new_token_data == prov.data
                               IN  IF refresh_token.raised
                                   THEN Answer(error_response(InvalidTokenText, 500),
                                               items, <<>>, 0)
                                   ELSE IF prov.status # "ok"
                                   THEN Answer(error_response(HTTPStatusErrorText, 500),
                                               items, <<"token">>, 0)
                                   ELSE IF new_token_data.expires_in = None
                                   THEN Answer(error_response(KeyErrorText("expires_in"), 500),
                                               items, <<"token">>, 1)
                                   ELSE LET updated ==
                                                DynamoDBService_update_access_token(
                                                    items, user_id[1], "spotify",
                                                    encrypt_token(new_token_data.access_token,
                                                                  t, iv + 1),
                                                    new_token_data.expires_in[1], t,
                                                    faults.write)
                                        IN  IF updated.raised
                                            THEN Answer(error_response("ClientError", 500),
                                                        items, <<"token">>, 1)
                                            ELSE Answer(success_response(
                                                     [accessToken |-> new_token_data.access_token,
                                                      expiresIn |-> new_token_data.expires_in[1]],
                                                     200), updated.items, <<"token">>, 1)

(***************************************************************************)
(* Inputs: the requests clients send and the answers providers give.       *)
(***************************************************************************)
EmptyTable == [k \in {} |-> 0]

\* the internal user ids that can exist
UserIdPool == {generate_internal_user_id(n) : n \in 1..MaxUsers}

Query(code, state, error) ==
    [queryStringParameters |-> [code |-> code, state |-> state, error |-> error]]

\* state strings a callback can receive: empty, one to four segments
StateStrings ==
    {<<>>, <<"junk">>, <<"mmp_1", "rnd", "verifier", "extra">>}
    \cup {<<u, "rnd">> : u \in UserIdPool}
    \cup {<<u, "rnd", "verifier">> : u \in UserIdPool}

\* the callbacks a provider sends after the user has consented, the state
\* being the one the connect handler of the flow builds
ConsentedEvents(parts) ==
    {Query(Some("good"), st, None) : st \in {x \in StateStrings : Len(x) = parts}}

\* every kind of callback request: with an error (alone, or next to a code
\* and a state), without a code, with every state string, with a code the
\* provider rejects
CallbackEvents ==
    {Query(Some("good"), st, None) : st \in StateStrings}
    \cup {Query(None, <<>>, Some("access_denied"))}
    \cup {Query(Some("good"), st, Some("access_denied")) :
            st \in {<<"mmp_1", "rnd">>, <<"mmp_1", "rnd", "verifier">>}}
    \cup {Query(None, <<"mmp_1", "rnd">>, None), Query(None, <<>>, None)}
    \cup {Query(Some("bad"), st, None) :
            st \in {<<"mmp_1", "rnd">>, <<"mmp_1", "rnd", "verifier">>}}

GoogleAccounts ==
    {[sub |-> "g1", email |-> "ann@example.com", name |-> Some("Ann"), picture |-> Some("pic")],
     [sub |-> "g2", email |-> "bob@example.com", name |-> None, picture |-> None]}

GoogleConsented ==
    {[token_status |-> "ok", userinfo_status |-> "ok", user_info |-> a] : a \in GoogleAccounts}

GoogleAnswers ==
    {[token_status |-> "ok", userinfo_status |-> "ok", user_info |-> a] : a \in GoogleAccounts}
    \cup {[token_status |-> ts, userinfo_status |-> us, user_info |-> CHOOSE a \in GoogleAccounts : a.sub = "g1"] :
            ts \in {"error"}, us \in {"ok"}}
    \cup {[token_status |-> ts, userinfo_status |-> us, user_info |-> CHOOSE a \in GoogleAccounts : a.sub = "g1"] :
            ts \in {"ok"}, us \in {"error"}}

PlatformMe == [id |-> "p-user", username |-> "dj", permalink |-> "dj", avatar_url |-> ""]
PlatformChannel == [id |-> "channel", title |-> "My channel"]

TokenData(refresh_token, expires_in) ==
    [access_token |-> Text("access-token"), refresh_token |-> refresh_token,
     expires_in |-> expires_in, scope |-> Some("scope")]

\* the provider accepts the code and answers every call
ConsentedAnswers ==
    {[token_status |-> "ok", token_data |-> TokenData(Some(Text("refresh-token")), Some(3600)),
      me_status |-> "ok", me |-> PlatformMe, channel |-> Some(PlatformChannel)]}

PlatformAnswers ==
    {[token_status |-> "ok", token_data |-> TokenData(rt, Some(3600)), me_status |-> "ok",
      me |-> PlatformMe, channel |-> Some(PlatformChannel)] :
        rt \in {None, Some(Text("refresh-token"))}}
    \cup {[token_status |-> "ok", token_data |-> TokenData(Some(Text("refresh-token")), Some(3600)),
           me_status |-> "ok", me |-> PlatformMe, channel |-> None]}
    \cup {[token_status |-> ts, token_data |-> TokenData(Some(Text("refresh-token")), Some(3600)),
           me_status |-> ms, me |-> PlatformMe, channel |-> Some(PlatformChannel)] :
            ts \in {"ok", "error"}, ms \in {"error"}}

\* the provider accepts only the code it has issued
CodeAccepted(event, prov) ==
    event.queryStringParameters.code = Some("bad") => prov.token_status = "error"

\* the session tokens clients can hold at time t: a Google callback issues
\* one whenever an existing user signs in
IssuedSessions(items, t) ==
    UNION {{create_session(k[1], i) : i \in items[k].createdAt..t} :
            k \in {k \in DOMAIN items : k[2] = PROFILE}}

\* tokens nobody has issued: signed with another key, cut short, or an
\* issued token whose payload names another user
ForgedSessions(items, t) ==
    {jwt_encode([user_id |-> "mmp_1", exp |-> t + ExpirationDays, iat |-> t],
                "attacker-key", JWT_ALGORITHM),
     [create_token("mmp_1", 0) EXCEPT !.segments = 2]}
    \cup {[tok EXCEPT !.payload.user_id = "mmp_1"] :
            tok \in {k \in IssuedSessions(items, t) :
                       k.payload.iat = t /\ k.payload.user_id # "mmp_1"}}

\* a session token issued just now to the first user, if there is one
FreshSessions(items, t) ==
    {k \in IssuedSessions(items, t) : k.payload.iat = t /\ k.payload.user_id = "mmp_1"}

Headers(items, t) ==
    {[Authorization |-> None, authorization |-> None]}
    \cup {[Authorization |-> Some([scheme |-> "Bearer ", token |-> tok]), authorization |-> None] :
            tok \in IssuedSessions(items, t) \cup ForgedSessions(items, t)}
    \cup {[Authorization |-> Some([scheme |-> "Basic ", token |-> tok]), authorization |-> None] :
            tok \in FreshSessions(items, t)}
    \cup {[Authorization |-> None, authorization |-> Some([scheme |-> "Bearer ", token |-> tok])] :
            tok \in FreshSessions(items, t)}

\* the platform of the path: missing, empty, a platform, or any other text
PathPlatforms ==
    {None, Some(""), Some("spotify"), Some("youtube"), Some("soundcloud"), Some("PROFILE")}

UserEvents(items, t) ==
    {[headers |-> h, pathParameters |-> [platform |-> None]] : h \in Headers(items, t)}

DeleteEvents(items, t) ==
    {[headers |-> h, pathParameters |-> [platform |-> p]] :
        h \in Headers(items, t), p \in PathPlatforms}

(***************************************************************************)
(* Actions: one per handler.                                               *)
(***************************************************************************)
Init ==
    /\ store = EmptyTable
    /\ now = 0
    /\ uuidCtr = 0
    /\ rng = 0
    /\ sessions = {}
    /\ vault = {}
    /\ oauthStates = {}
    /\ inflight = {}
    /\ outside = [issued |-> 0, disconnected |-> {}]
    /\ last = [op |-> "init"]

\* the record of one invocation: the request, the time it ran at, the
\* response, the provider endpoints called and the store operations done
Invocation(op, event, out, note) ==
    [op |-> op, event |-> event, at |-> now, resp |-> out.resp, calls |-> out.calls,
     ops |-> out.db.ops, note |-> note]

\* d days pass
Pass(d) ==
    /\ now + d <= MaxTime
    /\ now' = now + d
    /\ UNCHANGED <<store, uuidCtr, rng, sessions, vault, oauthStates, inflight, outside, last>>

Tick == Pass(1)
\* more than a whole expiration window passes
TickPastWindow == Pass(ExpirationDays + 1)

\* GET /auth/google/callback
GoogleCallback(events, answers) ==
    \E event \in events, prov \in answers :
        LET out == google_callback_handler(Db(store), event, prov, now,
                                           generate_internal_user_id(uuidCtr + 1))
            created == Writes(out.db.ops) # {}
        IN  /\ CodeAccepted(event, prov)
            /\ created => uuidCtr < MaxUsers
            /\ store' = out.db.items
            /\ uuidCtr' = IF created THEN uuidCtr + 1 ELSE uuidCtr
            /\ last' = Invocation("google_callback", event, out, [sub |-> prov.user_info.sub])
            /\ UNCHANGED <<now, rng, sessions, vault, oauthStates, inflight, outside>>

\* what a platform callback leaves behind
PlatformCallback(op, event, prov, out, draws) ==
    /\ CodeAccepted(event, prov)
    /\ rng + out.drawn <= draws
    /\ store' = out.db.items
    /\ rng' = rng + out.drawn
    /\ last' = Invocation(op, event, out, [sub |-> ""])
    /\ UNCHANGED <<now, uuidCtr, sessions, vault, oauthStates, inflight, outside>>

\* GET /platforms/spotify/callback
SpotifyCallback(events, answers, draws) ==
    \E event \in events, prov \in answers :
        PlatformCallback("spotify_callback", event, prov,
                         spotify_callback_handler(Db(store), event, prov, now, rng),
                         draws)
\* GET /platforms/youtube/callback
YouTubeCallback(events, answers, draws) ==
    \E event \in events, prov \in answers :
        PlatformCallback("youtube_callback", event, prov,
                         youtube_callback_handler(Db(store), event, prov, now, rng),
                         draws)
\* GET /platforms/soundcloud/callback
SoundCloudCallback(events, answers, draws) ==
    \E event \in events, prov \in answers :
        PlatformCallback("soundcloud_callback", event, prov,
                         soundcloud_callback_handler(Db(store), event, prov, now, rng),
                         draws)

\* what a user management request leaves behind
UserRequest(op, event, out, note) ==
    /\ store' = out.db.items
    /\ last' = Invocation(op, event, out, note)
    /\ UNCHANGED <<now, uuidCtr, rng, sessions, vault, oauthStates, inflight, outside>>

NoNote == [sub |-> ""]

\* whether the record a delete request names for the user its token names
\* existed before the request, and whether the request repeats the previous
\* one, which found that record
DeleteNote(event) ==
    LET p == event.pathParameters.platform
        h == AuthHeader(event)
    IN  [existed |-> /\ Present(p)
                     /\ h # None
                     /\ <<h[1].token.payload.user_id, PlatformSk(p[1])>> \in DOMAIN store,
         again |-> last.op = "delete_platform" /\ last.event = event /\ last.note.existed]

\* GET /user/profile
Profile ==
    \E event \in UserEvents(store, now) :
        UserRequest("profile", event, profile_handler(Db(store), event, now), NoNote)
\* GET /user/auth-providers
AuthProviders ==
    \E event \in UserEvents(store, now) :
        UserRequest("auth_providers", event,
                    auth_providers_handler(Db(store), event, now), NoNote)
\* GET /user/platforms
Platforms ==
    \E event \in UserEvents(store, now) :
        UserRequest("platforms", event, platforms_handler(Db(store), event, now), NoNote)
\* DELETE /user/platforms/{platform}
DeletePlatform ==
    \E event \in DeleteEvents(store, now) :
        UserRequest("delete_platform", event,
                    delete_platform_handler(Db(store), event, now), DeleteNote(event))

\* SSO sign-in and the platform callbacks, with every request a client or
\* a provider can send
Next ==
    \/ GoogleCallback(CallbackEvents, GoogleAnswers)
    \/ SpotifyCallback(CallbackEvents, PlatformAnswers, MaxRng)
    \/ YouTubeCallback(CallbackEvents, PlatformAnswers, MaxRng)
    \/ SoundCloudCallback(CallbackEvents, PlatformAnswers, MaxRng)

Spec == Init /\ [][Next]_vars

\* user management, on a table filled by consented callbacks
NextUser ==
    \/ TickPastWindow
    \/ GoogleCallback({Query(Some("good"), <<"rnd">>, None)}, GoogleConsented)
    \/ SpotifyCallback(ConsentedEvents(2), ConsentedAnswers, MaxRng)
    \/ YouTubeCallback(ConsentedEvents(2), ConsentedAnswers, MaxRng)
    \/ SoundCloudCallback(ConsentedEvents(3), ConsentedAnswers, MaxRng)
    \/ Profile
    \/ AuthProviders
    \/ Platforms
    \/ DeletePlatform

SpecUser == Init /\ [][NextUser]_vars

(***************************************************************************)
(* Platform connect and refresh requests.                                  *)
(***************************************************************************)
MaxDraws == 4

JsonBody(session_token) == [kind |-> "json", sessionToken |-> session_token]
\* a body json.loads cannot read
TextBody == [kind |-> "text", sessionToken |-> None]

\* a token signed with a key that is not the service's
AttackerSessions(t) ==
    {jwt_encode([user_id |-> "mmp_1", exp |-> t + ExpirationDays, iat |-> t],
                "attacker-key", JWT_ALGORITHM)}

\* the requests a client sends to connect and refresh: the session token in
\* the Authorization header or in the JSON body, or no valid one at all
PlatformEvents(items, t) ==
    {[headers |-> h, body |-> JsonBody(None)] :
        h \in {[Authorization |-> None, authorization |-> None]}
              \cup {[Authorization |-> Some([scheme |-> "Bearer ", token |-> tok]),
                     authorization |-> None] :
                       tok \in IssuedSessions(items, t) \cup AttackerSessions(t)}}
    \cup {[headers |-> [Authorization |-> None, authorization |-> None], body |-> b] :
            b \in {TextBody} \cup {JsonBody(Some(tok)) : tok \in FreshSessions(items, t)}}

RefreshData(refresh_token, expires_in) ==
    [access_token |-> Text("new-access-token"), refresh_token |-> refresh_token,
     expires_in |-> expires_in]

\* what the token endpoint answers to a refresh: new tokens, with or without
\* a new refresh token or a lifetime, or an error status
RefreshAnswers ==
    {[status |-> "ok", data |-> RefreshData(rt, Some(7200))] :
        rt \in {None, Some(Text("new-refresh-token"))}}
    \cup {[status |-> "ok", data |-> RefreshData(None, None)],
          [status |-> "error", data |-> RefreshData(None, None)]}

\* the token endpoint answers only when the handler asks it
NotAsked == [status |-> "error", data |-> RefreshData(None, None)]
Asked(out, prov) == out.calls = <<>> => prov = NotAsked

\* the record the user of the request's session has for the platform
StoredFor(platform_name, event) ==
    LET user_id == platform_get_user_from_session(event, now)
    IN  IF ~NoUser(user_id) /\ <<user_id[1], PlatformSk(platform_name)>> \in DOMAIN store
        THEN Some(store[<<user_id[1], PlatformSk(platform_name)>>])
        ELSE None

\* no provider issues new tokens for an empty refresh token
RefreshAccepted(platform_name, event, prov) ==
    LET stored == StoredFor(platform_name, event)
    IN  (/\ stored # None
         /\ "refreshToken" \in DOMAIN stored[1]
         /\ decrypt_token(stored[1].refreshToken).value = Some(Text("")))
        => prov.status = "error"

\* what a connect or refresh request leaves behind; the note holds the
\* record the session's user had for the platform before the request and
\* what the token endpoint answered
PlatformRequest(op, platform_name, event, prov, out) ==
    /\ rng + out.drawn <= MaxDraws
    /\ store' = out.db.items
    /\ rng' = rng + out.drawn
    /\ last' = Invocation(op, event, out,
                           [stored |-> StoredFor(platform_name, event), answer |-> prov])
    /\ UNCHANGED <<now, uuidCtr, sessions, vault, oauthStates, inflight, outside>>

\* POST /platforms/spotify/connect
SpotifyConnect ==
    \E event \in PlatformEvents(store, now) :
        PlatformRequest("spotify_connect", "spotify", event, NotAsked,
                        spotify_connect_handler(Db(store), event, now))
\* POST /platforms/youtube/connect
YouTubeConnect ==
    \E event \in PlatformEvents(store, now) :
        PlatformRequest("youtube_connect", "youtube", event, NotAsked,
                        youtube_connect_handler(Db(store), event, now))
\* soundcloud.connect_handler
SoundCloudConnect ==
    \E event \in PlatformEvents(store, now) :
        PlatformRequest("soundcloud_connect", "soundcloud", event, NotAsked,
                        soundcloud_connect_handler(Db(store), event, now))
\* POST /platforms/spotify/refresh
SpotifyRefresh ==
    \E event \in PlatformEvents(store, now), prov \in RefreshAnswers :
        LET out == spotify_refresh_handler(Db(store), event, prov, now, rng)
        IN  /\ Asked(out, prov)
            /\ RefreshAccepted("spotify", event, prov)
            /\ PlatformRequest("spotify_refresh", "spotify", event, prov, out)
\* POST /platforms/youtube/refresh
YouTubeRefresh ==
    \E event \in PlatformEvents(store, now), prov \in RefreshAnswers :
        LET out == youtube_refresh_handler(Db(store), event, prov, now, rng)
        IN  /\ Asked(out, prov)
            /\ RefreshAccepted("youtube", event, prov)
            /\ PlatformRequest("youtube_refresh", "youtube", event, prov, out)
\* soundcloud.refresh_handler
SoundCloudRefresh ==
    \E event \in PlatformEvents(store, now), prov \in RefreshAnswers :
        LET out == soundcloud_refresh_handler(Db(store), event, prov, now, rng)
        IN  /\ Asked(out, prov)
            /\ RefreshAccepted("soundcloud", event, prov)
            /\ PlatformRequest("soundcloud_refresh", "soundcloud", event, prov, out)

\* the first Google account signs in
FirstSignIn ==
    {a \in GoogleConsented : a.user_info.sub = "g1"}

\* the provider's answers to a consented callback, with and without a
\* refresh token
GrantedAnswers ==
    {a \in PlatformAnswers : a.token_status = "ok" /\ a.me_status = "ok" /\ a.channel # None}

\* the callbacks of flows two users have started
FlowEvents(parts) ==
    {e \in ConsentedEvents(parts) : e.queryStringParameters.state[1] \in {"mmp_1", "mmp_2"}}

\* DELETE /user/platforms/{platform} with a session the service has issued
Disconnect ==
    \E event \in {e \in DeleteEvents(store, now) :
                    /\ e.pathParameters.platform # None
                    /\ e.headers.Authorization # None
                    /\ e.headers.Authorization[1].scheme = "Bearer "
                    /\ e.headers.Authorization[1].token \in IssuedSessions(store, now)} :
        UserRequest("delete_platform", event,
                    delete_platform_handler(Db(store), event, now), DeleteNote(event))

\* sign-in, the platform flows (connect, callback, refresh, disconnect) and
\* the user's own records
NextPlatform ==
    \/ GoogleCallback({Query(Some("good"), <<"rnd">>, None)}, FirstSignIn)
    \/ SpotifyCallback(FlowEvents(2), GrantedAnswers, MaxDraws)
    \/ YouTubeCallback(FlowEvents(2), GrantedAnswers, MaxDraws)
    \/ SoundCloudCallback(FlowEvents(3), GrantedAnswers, MaxDraws)
    \/ SpotifyConnect
    \/ YouTubeConnect
    \/ SoundCloudConnect
    \/ SpotifyRefresh
    \/ YouTubeRefresh
    \/ SoundCloudRefresh
    \/ Disconnect
    \/ Profile
    \/ AuthProviders
    \/ Platforms

SpecPlatform == Init /\ [][NextPlatform]_vars

(***************************************************************************)
(* The persistence methods called one by one, with and without a fault of  *)
(* the table, and the refresh of src/handlers/spotify_auth.py.             *)
(***************************************************************************)
\* the Spotify ids spotify_auth.callback_handler uses as user ids
SpotifyUsers == {"p-user", "q-user"}

Faults == [read : BOOLEAN, write : BOOLEAN]

\* the record of one call of a persistence method
ServiceCall(op, user_id, fault, r) ==
    [op |-> op, userId |-> user_id, fault |-> fault, raised |-> r.raised,
     value |-> r.value, requests |-> r.requests]

\* a persistence method ran
Persisted(op, user_id, fault, r, drawn) ==
    /\ rng + drawn <= MaxDraws
    /\ store' = r.items
    /\ rng' = rng + drawn
    /\ last' = ServiceCall(op, user_id, fault, r)
    /\ UNCHANGED <<now, uuidCtr, sessions, vault, oauthStates, inflight, outside>>

StoreUser ==
    \E u \in SpotifyUsers, fault \in BOOLEAN :
        Persisted("store_user", u, fault,
                  store_user(store, u, "ann@example.com", "Ann", now, fault), 0)
GetUser ==
    \E u \in SpotifyUsers, fault \in BOOLEAN :
        Persisted("get_user", u, fault, get_user(store, u, fault), 0)
StoreToken ==
    \E u \in SpotifyUsers, fault \in BOOLEAN :
        Persisted("store_token", u, fault,
                  store_token(store, u, "spotify",
                              encrypt_token(Text("access-token"), now, rng + 1),
                              encrypt_token(Text("refresh-token"), now, rng + 2),
                              3600, "scope", now, fault), 2)
GetToken ==
    \E u \in SpotifyUsers, fault \in BOOLEAN :
        Persisted("get_token", u, fault, get_token(store, u, "spotify", fault), 0)
UpdateAccessToken ==
    \E u \in SpotifyUsers, fault \in BOOLEAN :
        Persisted("update_access_token", u, fault,
                  DynamoDBService_update_access_token(
                      store, u, "spotify",
                      encrypt_token(Text("new-access-token"), now, rng + 1),
                      7200, now, fault), 1)
DeleteToken ==
    \E u \in SpotifyUsers, fault \in BOOLEAN :
        Persisted("delete_token", u, fault, delete_token(store, u, "spotify", fault), 0)

\* the refresh requests of the users the tokens table knows, and of nobody
SpotifyAuthEvents(items, t) ==
    {[headers |-> [Authorization |-> None, authorization |-> None], body |-> b] :
        b \in {JsonBody(None), TextBody}
              \cup {JsonBody(Some(create_token(u, t))) : u \in SpotifyUsers}}
    \cup {[headers |-> [Authorization |-> Some([scheme |-> "Bearer ",
                                                token |-> create_token(u, t)]),
                        authorization |-> None],
           body |-> JsonBody(None)] : u \in SpotifyUsers}

\* POST /auth/spotify/refresh of local/app.py
SpotifyAuthRefresh ==
    \E event \in SpotifyAuthEvents(store, now), prov \in RefreshAnswers, faults \in Faults :
        LET out == spotify_auth_refresh_handler(store, event, prov, now, rng, faults)
        IN  /\ Asked(out, prov)
            /\ rng + out.drawn <= MaxDraws
            /\ store' = out.db.items
            /\ rng' = rng + out.drawn
            /\ last' = Invocation("spotify_auth_refresh", event, out,
                                  [faults |-> faults, answer |-> prov])
            /\ UNCHANGED <<now, uuidCtr, sessions, vault, oauthStates, inflight, outside>>

NextLegacy ==
    \/ StoreUser
    \/ GetUser
    \/ StoreToken
    \/ GetToken
    \/ UpdateAccessToken
    \/ DeleteToken
    \/ SpotifyAuthRefresh

SpecLegacy == Init /\ [][NextLegacy]_vars

(***************************************************************************)
(* Every handler, on a store that may fail: the k-th store operation of    *)
(* the invocation raises (k = 0: none does).                               *)
(***************************************************************************)
MaxStoreOps == 3
\* the values encrypted in a run of this specification: one connection and
\* one refresh
MaxFaultyDraws == 3
FailAts == 0..MaxStoreOps

\* callbacks as a provider sends them: consented, without a code, refused
CallbackShapes(state) ==
    {Query(Some("good"), state, None), Query(None, state, None),
     Query(Some("good"), state, Some("access_denied"))}

\* requests with the session of a signed-in user, and without one
SessionEvents(items, t) ==
    {e \in PlatformEvents(items, t) :
        /\ e.body = JsonBody(None)
        /\ e.headers.Authorization = None
           \/ e.headers.Authorization[1].token \in IssuedSessions(items, t)}

\* search requests: no query string, no q, a blank q, a q with text
SearchQueries ==
    {None, Some([q |-> None]), Some([q |-> Some(<<" ", " ">>)]),
     Some([q |-> Some(<<"\t", "s", "o", " ">>)])}

SearchEvents(items, t) ==
    {[headers |-> e.headers, body |-> e.body, queryStringParameters |-> q] :
        e \in {e \in PlatformEvents(items, t) : e.body = JsonBody(None)}, q \in SearchQueries}

\* what the tracks endpoint answers: tracks with and without an id, or an
\* error status
SearchAnswers ==
    {[status |-> "ok",
      collection |-> <<[id |-> Some(7), title |-> Some("Song")],
                       [id |-> None, title |-> Some("Ghost")],
                       [id |-> Some(8), title |-> None]>>],
     [status |-> "ok", collection |-> <<>>],
     [status |-> "error", collection |-> <<>>]}

\* the tracks endpoint answers only when the handler asks it
SearchAsked(out, api) == out.calls = <<>> => api = [status |-> "error", collection |-> <<>>]

\* the provider's answers to a callback: the first sign-in of one Google
\* account, one platform grant, and every failure
FaultyGoogleAnswers == FirstSignIn \cup {a \in GoogleAnswers : a.token_status # "ok" \/ a.userinfo_status # "ok"}
FaultyPlatformAnswers == {a \in PlatformAnswers : a.token_data.refresh_token # None}
FaultyRefreshAnswers == {a \in RefreshAnswers : a.data.refresh_token = None}

\* a fault is injected where the invocation reaches the store that often
Injected(k, out) == k = 0 \/ out.db.raised

\* what an invocation on a store that may fail leaves behind
FaultyRequest(op, event, k, out) ==
    /\ Injected(k, out)
    /\ rng + out.drawn <= MaxFaultyDraws
    /\ store' = out.db.items
    /\ rng' = rng + out.drawn
    /\ last' = Invocation(op, event, out, [failAt |-> k, raised |-> out.db.raised])
    /\ UNCHANGED <<now, uuidCtr, sessions, vault, oauthStates, inflight, outside>>

\* POST /auth/google/login
GoogleLogin ==
    \E k \in FailAts :
        FaultyRequest("google_login", [body |-> JsonBody(None)], k,
                      google_login_handler(FaultyDb(store, k), [body |-> JsonBody(None)]))

\* GET /auth/google/callback, for the first account that signs in
FaultyGoogleCallback ==
    \E event \in CallbackShapes(<<"rnd">>), prov \in FaultyGoogleAnswers, k \in FailAts :
        LET out == google_callback_handler(FaultyDb(store, k), event, prov, now,
                                           generate_internal_user_id(uuidCtr + 1))
            created == Writes(out.db.ops) # {}
        IN  /\ Injected(k, out)
            /\ created => uuidCtr = 0
            /\ store' = out.db.items
            /\ uuidCtr' = IF created THEN uuidCtr + 1 ELSE uuidCtr
            /\ last' = Invocation("google_callback", event, out,
                                  [failAt |-> k, raised |-> out.db.raised])
            /\ UNCHANGED <<now, rng, sessions, vault, oauthStates, inflight, outside>>

FaultySpotifyCallback ==
    \E event \in CallbackShapes(<<"mmp_1", "rnd">>), prov \in FaultyPlatformAnswers, k \in FailAts :
        FaultyRequest("spotify_callback", event, k,
                      spotify_callback_handler(FaultyDb(store, k), event, prov, now, rng))
FaultyYouTubeCallback ==
    \E event \in CallbackShapes(<<"mmp_1", "rnd">>), prov \in FaultyPlatformAnswers, k \in FailAts :
        FaultyRequest("youtube_callback", event, k,
                      youtube_callback_handler(FaultyDb(store, k), event, prov, now, rng))
FaultySoundCloudCallback ==
    \E event \in CallbackShapes(<<"mmp_1", "rnd", "verifier">>), prov \in FaultyPlatformAnswers,
       k \in FailAts :
        FaultyRequest("soundcloud_callback", event, k,
                      soundcloud_callback_handler(FaultyDb(store, k), event, prov, now, rng))

FaultySpotifyConnect ==
    \E event \in SessionEvents(store, now), k \in FailAts :
        FaultyRequest("spotify_connect", event, k,
                      spotify_connect_handler(FaultyDb(store, k), event, now))
FaultyYouTubeConnect ==
    \E event \in SessionEvents(store, now), k \in FailAts :
        FaultyRequest("youtube_connect", event, k,
                      youtube_connect_handler(FaultyDb(store, k), event, now))
FaultySoundCloudConnect ==
    \E event \in SessionEvents(store, now), k \in FailAts :
        FaultyRequest("soundcloud_connect", event, k,
                      soundcloud_connect_handler(FaultyDb(store, k), event, now))

FaultySpotifyRefresh ==
    \E event \in SessionEvents(store, now), prov \in FaultyRefreshAnswers, k \in FailAts :
        LET out == spotify_refresh_handler(FaultyDb(store, k), event, prov, now, rng)
        IN  /\ Asked(out, prov)
            /\ RefreshAccepted("spotify", event, prov)
            /\ FaultyRequest("spotify_refresh", event, k, out)
FaultyYouTubeRefresh ==
    \E event \in SessionEvents(store, now), prov \in FaultyRefreshAnswers, k \in FailAts :
        LET out == youtube_refresh_handler(FaultyDb(store, k), event, prov, now, rng)
        IN  /\ Asked(out, prov)
            /\ RefreshAccepted("youtube", event, prov)
            /\ FaultyRequest("youtube_refresh", event, k, out)
FaultySoundCloudRefresh ==
    \E event \in SessionEvents(store, now), prov \in FaultyRefreshAnswers, k \in FailAts :
        LET out == soundcloud_refresh_handler(FaultyDb(store, k), event, prov, now, rng)
        IN  /\ Asked(out, prov)
            /\ RefreshAccepted("soundcloud", event, prov)
            /\ FaultyRequest("soundcloud_refresh", event, k, out)

FaultySoundCloudSearch ==
    \E event \in SearchEvents(store, now), api \in SearchAnswers, k \in FailAts :
        LET out == soundcloud_search_handler(FaultyDb(store, k), event, api, now)
        IN  /\ SearchAsked(out, api)
            /\ FaultyRequest("soundcloud_search", event, k, out)

\* the user management requests of a signed-in user and of nobody
AccountEvents(items, t) ==
    {e \in DeleteEvents(items, t) :
        /\ e.pathParameters.platform \in {None, Some("spotify")}
        /\ e.headers.authorization = None
        /\ e.headers.Authorization = None
           \/ (/\ e.headers.Authorization[1].scheme = "Bearer "
               /\ e.headers.Authorization[1].token \in IssuedSessions(items, t))}

\* requests to the endpoints without a path parameter
PlainEvents(items, t) == {e \in AccountEvents(items, t) : e.pathParameters.platform = None}

FaultyProfile ==
    \E event \in PlainEvents(store, now), k \in FailAts :
        FaultyRequest("profile", event, k, profile_handler(FaultyDb(store, k), event, now))
FaultyAuthProviders ==
    \E event \in PlainEvents(store, now), k \in FailAts :
        FaultyRequest("auth_providers", event, k,
                      auth_providers_handler(FaultyDb(store, k), event, now))
FaultyPlatforms ==
    \E event \in PlainEvents(store, now), k \in FailAts :
        FaultyRequest("platforms", event, k, platforms_handler(FaultyDb(store, k), event, now))
FaultyDeletePlatform ==
    \E event \in AccountEvents(store, now), k \in FailAts :
        FaultyRequest("delete_platform", event, k,
                      delete_platform_handler(FaultyDb(store, k), event, now))

NextFaulty ==
    \/ GoogleLogin
    \/ FaultyGoogleCallback
    \/ FaultySpotifyCallback
    \/ FaultyYouTubeCallback
    \/ FaultySoundCloudCallback
    \/ FaultySpotifyConnect
    \/ FaultyYouTubeConnect
    \/ FaultySoundCloudConnect
    \/ FaultySpotifyRefresh
    \/ FaultyYouTubeRefresh
    \/ FaultySoundCloudRefresh
    \/ FaultySoundCloudSearch
    \/ FaultyProfile
    \/ FaultyAuthProviders
    \/ FaultyPlatforms
    \/ FaultyDeletePlatform

SpecFaulty == Init /\ [][NextFaulty]_vars

(***************************************************************************)
(* The session lookup of the platform handlers on its own: every header   *)
(* with every body.                                                        *)
(***************************************************************************)
\* event['body'] is None
AbsentBody == [kind |-> "absent", sessionToken |-> None]

\* the tokens a request can carry: issued to a user, forged, expired with
\* the clock
LookupTokens(items, t) == IssuedSessions(items, t) \cup AttackerSessions(t)

LookupHeaders(items, t) ==
    {[Authorization |-> None, authorization |-> None]}
    \cup {[Authorization |-> Some([scheme |-> sch, token |-> tok]), authorization |-> None] :
            sch \in {"Bearer ", "Basic "}, tok \in LookupTokens(items, t) \cup {EmptyToken}}
    \cup {[Authorization |-> None, authorization |-> Some([scheme |-> "Bearer ", token |-> tok])] :
            tok \in LookupTokens(items, t)}

LookupBodies(items, t) ==
    {AbsentBody, TextBody, JsonBody(None)}
    \cup {JsonBody(Some(tok)) : tok \in LookupTokens(items, t) \cup {EmptyToken}}

LookupEvents(items, t) ==
    {[headers |-> h, body |-> b] : h \in LookupHeaders(items, t), b \in LookupBodies(items, t)}

\* auth_handler.get_user_from_session(event)
GetUserFromSession ==
    \E event \in LookupEvents(store, now) :
        /\ last' = [op |-> "get_user_from_session", event |-> event, at |-> now,
                    resp |-> platform_get_user_from_session(event, now)]
        /\ UNCHANGED <<store, now, uuidCtr, rng, sessions, vault, oauthStates, inflight, outside>>

NextSession ==
    \/ Tick
    \/ GoogleCallback({Query(Some("good"), <<"rnd">>, None)}, FirstSignIn)
    \/ GetUserFromSession

SpecSession == Init /\ [][NextSession]_vars

(***************************************************************************)
(* The two HTTP entry points (main.py, local/app.py): their route tables   *)
(* and the dispatch of a request.  A path is the sequence of its segments, *)
(* "/" the empty one; a target is the function the route calls.            *)
(***************************************************************************)
Route(method, template, target) == [method |-> method, template |-> template, target |-> target]

\* the routes of main.py
MainRoutes ==
    {Route("POST", <<"auth", "google", "login">>, "google.login_handler"),
     Route("GET", <<"auth", "google", "callback">>, "google.callback_handler"),
     Route("POST", <<"platforms", "spotify", "connect">>, "spotify.connect_handler"),
     Route("GET", <<"platforms", "spotify", "callback">>, "spotify.callback_handler"),
     Route("POST", <<"platforms", "spotify", "refresh">>, "spotify.refresh_handler"),
     Route("POST", <<"platforms", "youtube", "connect">>, "youtube.connect_handler"),
     Route("GET", <<"platforms", "youtube", "callback">>, "youtube.callback_handler"),
     Route("POST", <<"platforms", "youtube", "refresh">>, "youtube.refresh_handler"),
     Route("GET", <<"user", "profile">>, "user.profile_handler"),
     Route("GET", <<"user", "auth-providers">>, "user.auth_providers_handler"),
     Route("GET", <<"user", "platforms">>, "user.platforms_handler"),
     Route("DELETE", <<"user", "platforms", "{platform}">>, "user.delete_platform_handler"),
     Route("GET", <<"health">>, "health")}

\* the routes of local/app.py; the two user routes answer with a fixed
\* message and call no handler
LocalRoutes ==
    {Route("GET", <<>>, "root"),
     Route("GET", <<"health">>, "health"),
     Route("POST", <<"auth", "spotify", "login">>, "spotify_auth.login_handler"),
     Route("GET", <<"auth", "spotify", "callback">>, "spotify_auth.callback_handler"),
     Route("POST", <<"auth", "spotify", "refresh">>, "spotify_auth.refresh_handler"),
     Route("GET", <<"user", "profile">>, "to be implemented"),
     Route("DELETE", <<"user", "platforms", "{platform}">>, "to be implemented")}

\* a path fits a route's template: segment by segment, a path parameter
\* taking any segment
Matches(template, path) ==
    /\ Len(template) = Len(path)
    /\ \A i \in 1..Len(path) : template[i] = path[i] \/ template[i] = "{platform}"

\* the function a request is dispatched to, if a route takes it
Dispatch(routes, method, path) ==
    LET hits == {r \in routes : r.method = method /\ Matches(r.template, path)}
    IN  IF hits = {} THEN None ELSE Some((CHOOSE r \in hits : TRUE).target)

RequestMethods == {"GET", "POST", "DELETE"}

RequestPaths ==
    {<<>>, <<"health">>, <<"auth", "google", "login">>, <<"auth", "google", "callback">>,
     <<"auth", "spotify", "login">>, <<"auth", "spotify", "callback">>,
     <<"auth", "spotify", "refresh">>, <<"platforms", "soundcloud", "search">>,
     <<"user", "profile">>, <<"user", "auth-providers">>, <<"user", "platforms">>,
     <<"user", "platforms", "spotify">>}
    \cup {<<"platforms", p, step>> :
            p \in {"spotify", "youtube", "soundcloud"},
            step \in {"connect", "callback", "refresh"}}

\* what a request to an entry point leaves behind
Dispatched(entry, routes, method, path) ==
    [op |-> "dispatch", entry |-> entry, method |-> method, path |-> path,
     target |-> Dispatch(routes, method, path)]

\* a request to the application of main.py
MainRequest ==
    \E method \in RequestMethods, path \in RequestPaths :
        /\ last' = Dispatched("main.py", MainRoutes, method, path)
        /\ UNCHANGED <<store, now, uuidCtr, rng, sessions, vault, oauthStates, inflight, outside>>

\* a request to the application of local/app.py
LocalRequest ==
    \E method \in RequestMethods, path \in RequestPaths :
        /\ last' = Dispatched("local/app.py", LocalRoutes, method, path)
        /\ UNCHANGED <<store, now, uuidCtr, rng, sessions, vault, oauthStates, inflight, outside>>

NextRouting ==
    \/ MainRequest
    \/ LocalRequest

SpecRouting == Init /\ [][NextRouting]_vars

(***************************************************************************)
(* The OAuth state from connect to callback: the connect handlers hand   *)
(* out states, a callback arrives with a state that was handed out or     *)
(* with one built by hand.                                                 *)
(***************************************************************************)
\* the state a connect response carries, if it carries one
StateOf(resp) ==
    IF resp.statusCode = 200 /\ "state" \in DOMAIN resp.body THEN {resp.body.state} ELSE {}

\* states nobody handed out: U:anything and U:anything:anything
HandBuiltStates ==
    {<<u, "anything">> : u \in {"mmp_1", "mmp_2"}}
    \cup {<<u, "anything", "anything">> : u \in {"mmp_1", "mmp_2"}}

\* a callback as the provider redirects to it, with the state it was given
StateEvents(states) == {Query(Some("good"), st, None) : st \in states}

\* a connect call; the client keeps the state of the response
Connecting(op, event, out) ==
    /\ store' = out.db.items
    /\ oauthStates' = oauthStates \cup StateOf(out.resp)
    /\ last' = Invocation(op, event, out, [handedOut |-> StateOf(out.resp)])
    /\ UNCHANGED <<now, uuidCtr, rng, sessions, vault, inflight, outside>>

ConnectSpotify ==
    \E event \in PlatformEvents(store, now) :
        Connecting("spotify_connect", event, spotify_connect_handler(Db(store), event, now))
ConnectYouTube ==
    \E event \in PlatformEvents(store, now) :
        Connecting("youtube_connect", event, youtube_connect_handler(Db(store), event, now))
ConnectSoundCloud ==
    \E event \in PlatformEvents(store, now) :
        Connecting("soundcloud_connect", event, soundcloud_connect_handler(Db(store), event, now))

\* one grant of the provider
OneGrant == {a \in GrantedAnswers : a.token_data.refresh_token # None}

NextStates ==
    \/ GoogleCallback({Query(Some("good"), <<"rnd">>, None)}, FirstSignIn)
    \/ ConnectSpotify
    \/ ConnectYouTube
    \/ ConnectSoundCloud
    \/ SpotifyCallback(StateEvents(oauthStates \cup HandBuiltStates), OneGrant, MaxRng)
    \/ YouTubeCallback(StateEvents(oauthStates \cup HandBuiltStates), OneGrant, MaxRng)
    \/ SoundCloudCallback(StateEvents(oauthStates \cup HandBuiltStates), OneGrant, MaxRng)

SpecStates == Init /\ [][NextStates]_vars

(***************************************************************************)
(* Concurrent invocations.  The handlers run as separate processes on one  *)
(* table; each table request is a step of its own, and a process may stop  *)
(* between two steps.  inflight holds the processes that have started and  *)
(* not yet answered, each with its position and its local variables.       *)
(***************************************************************************)
MaxInFlight == 2
Pids == 1..MaxInFlight
FreePids == Pids \ {p.pid : p \in inflight}

\* a process moves on
Moved(p, q) == (inflight \ {p}) \cup {q}

\* the variant of find_or_create_user that writes the link first
NextWrite_LinkFirst(pc) ==
    IF pc = "lookup" THEN "link" ELSE IF pc = "link" THEN "profile" ELSE "session"

\* the order of the writes of find_or_create_user when it creates a user:
\* the User Profile, then the Auth Provider Link, then the session
NextWrite(pc) ==
    IF pc = "lookup" THEN "profile" ELSE IF pc = "profile" THEN "link" ELSE "session"

\* google.callback_handler up to find_or_create_user: Google has answered
GoogleCallbackStarts ==
    \E pid \in FreePids, prov \in GoogleConsented :
        /\ inflight' = inflight \cup
               {[pid |-> pid, op |-> "google_callback", pc |-> "lookup",
                 user_info |-> prov.user_info, user_id |-> ""]}
        /\ UNCHANGED <<store, now, uuidCtr, rng, sessions, vault, oauthStates, outside, last>>

\* find_or_create_user: get_user_by_provider, and generate_internal_user_id
\* when there is no link
FindUser ==
    \E p \in inflight :
        LET existing_user == get_user_by_provider(Db(store), "google", p.user_info.sub)
        IN  /\ p.op = "google_callback" /\ p.pc = "lookup"
            /\ existing_user.item = None => uuidCtr < MaxUsers
            /\ inflight' = Moved(p,
                   IF existing_user.item # None
                   THEN [p EXCEPT !.pc = "session", !.user_id = existing_user.item[1].userId]
                   ELSE [p EXCEPT !.pc = NextWrite("lookup"),
                                  !.user_id = generate_internal_user_id(uuidCtr + 1)])
            /\ uuidCtr' = IF existing_user.item # None THEN uuidCtr ELSE uuidCtr + 1
            /\ UNCHANGED <<store, now, rng, sessions, vault, oauthStates, outside, last>>

\* find_or_create_user: put_item of the User Profile
PutProfile ==
    \E p \in inflight :
        LET email == p.user_info.email
            display_name == IF p.user_info.name # None THEN p.user_info.name[1]
                            ELSE EmailLocalPart(email)
            avatar_url == IF p.user_info.picture # None THEN p.user_info.picture[1] ELSE ""
        IN  /\ p.op = "google_callback" /\ p.pc = "profile"
            /\ store' = put_item(Db(store), ProfileItem(p.user_id, "google", email,
                                                        display_name, avatar_url, now)).items
            /\ inflight' = Moved(p, [p EXCEPT !.pc = NextWrite("profile")])
            /\ UNCHANGED <<now, uuidCtr, rng, sessions, vault, oauthStates, outside, last>>

\* find_or_create_user: put_item of the Auth Provider Link
PutAuthLink ==
    \E p \in inflight :
        /\ p.op = "google_callback" /\ p.pc = "link"
        /\ store' = put_item(Db(store), AuthLinkItem(p.user_id, "google", p.user_info.sub,
                                                     p.user_info.email, now)).items
        /\ inflight' = Moved(p, [p EXCEPT !.pc = NextWrite("link")])
        /\ UNCHANGED <<now, uuidCtr, rng, sessions, vault, oauthStates, outside, last>>

\* google.callback_handler: create_session and the redirect
SessionIssued ==
    \E p \in inflight :
        LET session_token == create_session(p.user_id, now)
        IN  /\ p.op = "google_callback" /\ p.pc = "session"
            /\ sessions' = sessions \cup
                   {[user_id |-> p.user_id, at |-> now, token |-> session_token,
                     sub |-> p.user_info.sub]}
            /\ inflight' = inflight \ {p}
            /\ last' = [op |-> "google_callback", at |-> now, pid |-> p.pid,
                        resp |-> redirect_response(
                                     Url(FRONTEND_URL, "", "session", <<session_token>>), 302)]
            /\ UNCHANGED <<store, now, uuidCtr, rng, vault, oauthStates, outside>>

\* the runtime ends an invocation between two of its steps
Crash ==
    \E p \in inflight :
        /\ inflight' = inflight \ {p}
        /\ UNCHANGED <<store, now, uuidCtr, rng, sessions, vault, oauthStates, outside, last>>

NextSignIn ==
    \/ GoogleCallbackStarts
    \/ FindUser
    \/ PutProfile
    \/ PutAuthLink
    \/ SessionIssued
    \/ Crash

SpecSignIn == Init /\ [][NextSignIn]_vars

(***************************************************************************)
(* Concurrent SoundCloud refreshes.  refresh_handler reads the record     *)
(* (get_platform_tokens), asks the token endpoint for new tokens and      *)
(* writes them (update_item): three steps of a process.  The token        *)
(* endpoint numbers the pairs of tokens it issues; refresh tokens are     *)
(* one-time-use, so it accepts only the refresh token of the pair it      *)
(* issued last.  outside.issued is the number of pairs issued so far,     *)
(* outside.disconnected the (user, platform) pairs a client was told are  *)
(* disconnected and that no callback has connected again.                 *)
(***************************************************************************)
\* the token endpoint issues at most this many pairs of tokens
MaxIssued == 3
AccessNames == <<"access-1", "access-2", "access-3", "access-4", "access-5">>
RefreshNames == <<"refresh-1", "refresh-2", "refresh-3", "refresh-4", "refresh-5">>

\* the n-th pair of tokens as an answer to a refresh
Rotated(n) ==
    [status |-> "ok",
     data |-> [access_token |-> Text(AccessNames[n]),
               refresh_token |-> Some(Text(RefreshNames[n])),
               expires_in |-> Some(7200)]]

\* the n-th pair of tokens as an answer to a code exchange
Grant(n) ==
    [token_status |-> "ok",
     token_data |-> [access_token |-> Text(AccessNames[n]),
                     refresh_token |-> Some(Text(RefreshNames[n])),
                     expires_in |-> Some(3600), scope |-> Some("scope")],
     me_status |-> "ok", me |-> PlatformMe, channel |-> Some(PlatformChannel)]

\* the token endpoint has issued the refresh token and no other since
StillAccepted(refresh_token) ==
    outside.issued > 0 /\ refresh_token = Text(RefreshNames[outside.issued])

\* requests with the session of a signed-in user
SignedRefreshes ==
    {e \in PlatformEvents(store, now) :
        /\ e.headers.Authorization # None
        /\ e.headers.Authorization[1].token \in IssuedSessions(store, now)}

\* the table as the process saw it when it read the record
AsRead(p) ==
    LET key == <<p.user_id, PlatformSk("soundcloud")>>
    IN  Db([k \in DOMAIN store \cup {key} |-> IF k = key THEN p.token_data ELSE store[k]])

\* variant of RefreshedRecord: only the access token is written
RefreshedRecord_AccessOnly(db, p, t, iv) ==
    update_item(db, p.user_id, PlatformSk("soundcloud"),
                [accessToken |-> encrypt_token(p.new_token_data.access_token, t, iv + 1),
                 expiresIn |-> GetOr(p.new_token_data.expires_in, 31536000)])

\* refresh_handler: the update_item call, on the table as it is by then
RefreshedRecord(db, p, t, iv) ==
    update_item(db, p.user_id, PlatformSk("soundcloud"),
                SoundCloudUpdates(p.new_token_data, t, iv))

\* GET /platforms/soundcloud/callback of the first user: the token endpoint
\* issues a new pair; quiet: no refresh is in flight
SoundCloudLinked(quiet) ==
    \E event \in StateEvents({<<"mmp_1", "rnd", "verifier">>}) :
        LET n == outside.issued + 1
            out == soundcloud_callback_handler(Db(store), event, Grant(n), now, rng)
        IN  /\ outside.issued < MaxIssued
            /\ quiet => inflight = {}
            /\ Writes(out.db.ops) # {}
            /\ store' = out.db.items
            /\ rng' = rng + out.drawn
            /\ outside' = [issued |-> n,
                           disconnected |-> outside.disconnected \ {<<"mmp_1", "soundcloud">>}]
            /\ last' = Invocation("soundcloud_callback", event, out, [sub |-> ""])
            /\ UNCHANGED <<now, uuidCtr, sessions, vault, oauthStates, inflight>>

\* refresh_handler up to get_platform_tokens: it answers at once when there
\* is nothing to ask the token endpoint for
RefreshReads ==
    \E pid \in FreePids, event \in SignedRefreshes :
        LET out == soundcloud_refresh_handler(Db(store), event, NotAsked, now, rng)
            user_id == platform_get_user_from_session(event, now)
            token_data == get_platform_tokens(Db(store), "soundcloud", user_id[1])
        IN  IF out.calls = <<>>
            THEN /\ last' = Invocation("soundcloud_refresh", event, out, [pid |-> pid])
                 /\ UNCHANGED <<store, now, uuidCtr, rng, sessions, vault, oauthStates,
                                inflight, outside>>
            ELSE /\ inflight' = inflight \cup
                        {[pid |-> pid, op |-> "soundcloud_refresh", pc |-> "ask",
                          event |-> event, user_id |-> user_id[1],
                          token_data |-> token_data.item[1],
                          new_token_data |-> NotAsked.data]}
                 /\ UNCHANGED <<store, now, uuidCtr, rng, sessions, vault, oauthStates,
                                outside, last>>

\* refresh_handler: refresh_access_token with the refresh token it has read
RefreshAsks ==
    \E p \in inflight :
        LET refresh_token == decrypt_token(p.token_data.refreshToken).value[1]
            n == outside.issued + 1
            out == soundcloud_refresh_handler(AsRead(p), p.event, NotAsked, now, rng)
        IN  /\ p.op = "soundcloud_refresh" /\ p.pc = "ask"
            /\ IF StillAccepted(refresh_token)
               THEN /\ outside.issued < MaxIssued
                    /\ outside' = [outside EXCEPT !.issued = n]
                    /\ inflight' = Moved(p, [p EXCEPT !.pc = "write",
                                                      !.new_token_data = Rotated(n).data])
                    /\ UNCHANGED <<store, now, uuidCtr, rng, sessions, vault, oauthStates,
                                   last>>
               ELSE /\ inflight' = inflight \ {p}
                    /\ last' = Invocation("soundcloud_refresh", p.event, out,
                                          [pid |-> p.pid])
                    /\ UNCHANGED <<store, now, uuidCtr, rng, sessions, vault, oauthStates,
                                   outside>>

\* refresh_handler: update_item and the response
RefreshWrites ==
    \E p \in inflight :
        LET out == soundcloud_refresh_handler(AsRead(p), p.event,
                                              [status |-> "ok", data |-> p.new_token_data],
                                              now, rng)
        IN  /\ p.op = "soundcloud_refresh" /\ p.pc = "write"
            /\ store' = RefreshedRecord(Db(store), p, now, rng).items
            /\ rng' = rng + out.drawn
            /\ inflight' = inflight \ {p}
            /\ last' = Invocation("soundcloud_refresh", p.event, out, [pid |-> p.pid])
            /\ UNCHANGED <<now, uuidCtr, sessions, vault, oauthStates, outside>>

\* sign-in, a grant while no refresh runs, and refreshes that run to their
\* end side by side
NextRefresh ==
    \/ GoogleCallback({Query(Some("good"), <<"rnd">>, None)}, FirstSignIn)
    \/ SoundCloudLinked(TRUE)
    \/ RefreshReads
    \/ RefreshAsks
    \/ RefreshWrites

SpecRefresh == Init /\ [][NextRefresh]_vars

\* DELETE /user/platforms/soundcloud with a session the service has issued
Disconnects ==
    \E event \in {e \in DeleteEvents(store, now) :
                    /\ e.pathParameters.platform = Some("soundcloud")
                    /\ e.headers.Authorization # None
                    /\ e.headers.Authorization[1].scheme = "Bearer "
                    /\ e.headers.Authorization[1].token \in IssuedSessions(store, now)} :
        LET out == delete_platform_handler(Db(store), event, now)
            user_id == get_user_from_session(event, now).user_id
        IN  /\ store' = out.db.items
            /\ outside' = IF out.resp.statusCode = 200
                          THEN [outside EXCEPT
                                  !.disconnected = @ \cup {<<user_id, "soundcloud">>}]
                          ELSE outside
            /\ last' = Invocation("delete_platform", event, out, DeleteNote(event))
            /\ UNCHANGED <<now, uuidCtr, rng, sessions, vault, oauthStates, inflight>>

\* refreshes side by side with disconnects, new grants and listings
NextDisconnect ==
    \/ GoogleCallback({Query(Some("good"), <<"rnd">>, None)}, FirstSignIn)
    \/ SoundCloudLinked(FALSE)
    \/ RefreshReads
    \/ RefreshAsks
    \/ RefreshWrites
    \/ Disconnects
    \/ Platforms

SpecDisconnect == Init /\ [][NextDisconnect]_vars

(***************************************************************************)
(* Two signed-in users side by side: each connects, refreshes, searches,  *)
(* lists and disconnects with its own session while the other has         *)
(* records of its own (Spotify and SoundCloud connections).               *)
(***************************************************************************)
NextTenants ==
    \/ GoogleCallback({Query(Some("good"), <<"rnd">>, None)}, GoogleConsented)
    \/ SpotifyCallback(FlowEvents(2), OneGrant, MaxDraws)
    \/ SoundCloudCallback(FlowEvents(3), OneGrant, MaxDraws)
    \/ SpotifyConnect
    \/ YouTubeConnect
    \/ SoundCloudConnect
    \/ SpotifyRefresh
    \/ YouTubeRefresh
    \/ SoundCloudRefresh
    \/ FaultySoundCloudSearch
    \/ Disconnect
    \/ Profile
    \/ AuthProviders
    \/ Platforms

SpecTenants == Init /\ [][NextTenants]_vars

(***************************************************************************)
(* The state round trip: a connect call hands out an authorization URL    *)
(* and a state, the user consents, and the provider redirects to the      *)
(* callback with the state as it was.  The SoundCloud token endpoint       *)
(* exchanges the code only for the verifier of the challenge it was sent  *)
(* in the authorization URL (PKCE).                                        *)
(***************************************************************************)
\* the flow the last invocation started
Started(op) ==
    /\ last.op = op
    /\ last.resp.statusCode = 200
    /\ "state" \in DOMAIN last.resp.body

\* what the token endpoint answers to the code
Exchanges == OneGrant \cup {a \in PlatformAnswers : a.token_status = "error"}

\* PKCE at the token endpoint: the code is exchanged exactly when the
\* verifier hashes to the challenge of the authorization request
PkceAccepted(code_verifier, sent, prov) ==
    prov.token_status = "ok" <=> S256(code_verifier) = sent.code_challenge

\* what a callback of the flow leaves behind: the note holds the user who
\* started the flow and the authorization URL that user was sent to
Returning(op, event, out) ==
    /\ rng + out.drawn <= MaxDraws
    /\ store' = out.db.items
    /\ rng' = rng + out.drawn
    /\ last' = Invocation(op, event, out,
                           [user |-> platform_get_user_from_session(last.event, last.at)[1],
                            sent |-> last.resp.body.authUrl])
    /\ UNCHANGED <<now, uuidCtr, sessions, vault, oauthStates, inflight, outside>>

SpotifyReturns ==
    \E prov \in OneGrant :
        /\ Started("spotify_connect")
        /\ LET event == Query(Some("good"), last.resp.body.state, None)
           IN  Returning("spotify_callback", event,
                         spotify_callback_handler(Db(store), event, prov, now, rng))
YouTubeReturns ==
    \E prov \in OneGrant :
        /\ Started("youtube_connect")
        /\ LET event == Query(Some("good"), last.resp.body.state, None)
           IN  Returning("youtube_callback", event,
                         youtube_callback_handler(Db(store), event, prov, now, rng))
SoundCloudReturns ==
    \E prov \in Exchanges :
        /\ Started("soundcloud_connect")
        /\ LET event == Query(Some("good"), last.resp.body.state, None)
           IN  /\ PkceAccepted(CodeVerifier(StateParts(last.resp.body.state, 2)),
                               last.resp.body.authUrl, prov)
               /\ Returning("soundcloud_callback", event,
                            soundcloud_callback_handler(Db(store), event, prov, now, rng))

NextRoundTrip ==
    \/ GoogleCallback({Query(Some("good"), <<"rnd">>, None)}, GoogleConsented)
    \/ ConnectSpotify
    \/ ConnectYouTube
    \/ ConnectSoundCloud
    \/ SpotifyReturns
    \/ YouTubeReturns
    \/ SoundCloudReturns

SpecRoundTrip == Init /\ [][NextRoundTrip]_vars

(***************************************************************************)
(* The two services on their own: session tokens created and verified as   *)
(* time passes, platform tokens encrypted and decrypted.                   *)
(***************************************************************************)
\* the user ids create_token is called with; the empty one is possible
JwtUserIds == UserIdPool \cup {""}

\* what a client can present for a token it was issued: the token, the
\* token with another user id or a later expiry under the old signature,
\* the same claims signed with another key or with no algorithm, the token
\* cut to two segments
PresentedTokens(issued) ==
    issued
    \cup {[tok EXCEPT !.payload.user_id = "mmp_2"] : tok \in issued}
    \cup {[tok EXCEPT !.payload.exp = MaxTime + 1] : tok \in issued}
    \cup {jwt_encode(tok.payload, "attacker-key", JWT_ALGORITHM) : tok \in issued}
    \cup {jwt_encode(tok.payload, "", "none") : tok \in issued}
    \cup {[tok EXCEPT !.segments = 2] : tok \in issued}

\* JWTService.create_token(user_id)
JwtCreate ==
    \E user_id \in JwtUserIds :
        LET token == create_token(user_id, now)
        IN  /\ Cardinality(sessions) < MaxSessions
            /\ sessions' = sessions \cup {[user_id |-> user_id, at |-> now, token |-> token]}
            /\ last' = [op |-> "create_token", user_id |-> user_id, at |-> now, token |-> token]
            /\ UNCHANGED <<store, now, uuidCtr, rng, vault, oauthStates, inflight, outside>>

\* JWTService.verify_token(token)
JwtVerify ==
    \E token \in PresentedTokens({s.token : s \in sessions}) :
        LET r == verify_token(token, now)
        IN  /\ last' = [op |-> "verify_token", token |-> token, at |-> now,
                        raised |-> r.raised, value |-> r.value]
            /\ UNCHANGED <<store, now, uuidCtr, rng, sessions, vault, oauthStates, inflight, outside>>

NextJWT ==
    \/ Tick
    \/ JwtCreate
    \/ JwtVerify

SpecJWT == Init /\ [][NextJWT]_vars

\* the strings encrypt_token is called with: provider tokens, the empty
\* string the callbacks pass for a missing refresh token, a ciphertext
Plaintexts(held) ==
    {Text("test-access-token-12345"), Text("")} \cup {v.cipher : v \in held}

\* the strings decrypt_token is called with: stored ciphertexts, a
\* ciphertext made under another key, one made under a setting that gives
\* the same Fernet key, a ciphertext altered after it was authenticated, a
\* string that is no Fernet token
Ciphertexts(held) ==
    {v.cipher : v \in held}
    \cup {Fernet_encrypt(FernetKey(k), v.plain, 0, 1) :
            v \in held, k \in {<<"o", "t", "h", "e", "r">>, ENCRYPTION_KEY \o <<"0">>}}
    \cup {[c EXCEPT !.timestamp = c.timestamp + 1] :
            c \in {v.cipher : v \in {x \in held : x.cipher.fmt = "fernet"}}}
    \cup {Text("not-a-fernet-token")}

\* TokenService.encrypt_token(token)
EncryptToken ==
    \E token \in Plaintexts(vault) :
        LET encrypted == encrypt_token(token, now, rng + 1)
        IN  /\ rng < MaxRng
            /\ Cardinality(vault) < MaxVault
            /\ rng' = rng + 1
            /\ vault' = vault \cup {[plain |-> token, cipher |-> encrypted]}
            /\ last' = [op |-> "encrypt_token", input |-> token, at |-> now,
                        output |-> encrypted]
            /\ UNCHANGED <<store, now, uuidCtr, sessions, oauthStates, inflight, outside>>

\* TokenService.decrypt_token(encrypted_token)
DecryptToken ==
    \E encrypted_token \in Ciphertexts(vault) :
        LET r == decrypt_token(encrypted_token)
        IN  /\ last' = [op |-> "decrypt_token", input |-> encrypted_token, at |-> now,
                        raised |-> r.raised, value |-> r.value]
            /\ UNCHANGED <<store, now, uuidCtr, rng, sessions, vault, oauthStates, inflight, outside>>

NextEnc ==
    \/ Tick
    \/ EncryptToken
    \/ DecryptToken

SpecEnc == Init /\ [][NextEnc]_vars

\* the environments a process can be started in: each setting absent, empty
\* or set; the key shorter than, as long as or longer than the Fernet key
Environs ==
    [ENCRYPTION_KEY : {None, Some(<<>>), Some(ENCRYPTION_KEY),
                       Some(FernetKey(ENCRYPTION_KEY)),
                       Some(FernetKey(ENCRYPTION_KEY) \o <<"x">>)},
     JWT_SECRET : {None, Some(""), Some(JWT_SECRET)},
     JWT_ALGORITHM : {None, Some("HS512")},
     JWT_EXPIRATION_DAYS : {None, Some([digits |-> TRUE, n |-> ExpirationDays]),
                            Some([digits |-> FALSE, n |-> 0])}]

Construction(op, environ, r) ==
    /\ last' = [op |-> op, environ |-> environ, exc |-> r.exc, message |-> r.message,
                instance |-> r.instance]
    /\ UNCHANGED <<store, now, uuidCtr, rng, sessions, vault, oauthStates, inflight, outside>>

\* TokenService()
ConstructTokenService ==
    \E environ \in Environs : Construction("TokenService", environ, TokenService_init(environ))

\* JWTService()
ConstructJWTService ==
    \E environ \in Environs : Construction("JWTService", environ, JWTService_init(environ))

NextConfig ==
    \/ ConstructTokenService
    \/ ConstructJWTService

SpecConfig == Init /\ [][NextConfig]_vars

(***************************************************************************)
(* Properties of the SSO sign-in and of the OAuth callbacks (Spec).        *)
(***************************************************************************)
CallbackOps == {"google_callback", "spotify_callback", "youtube_callback", "soundcloud_callback"}
PlatformCallbackOps == CallbackOps \ {"google_callback"}

Location(inv) == inv.resp.headers.Location
IsRedirect(inv) == inv.resp.statusCode = 302 /\ "Location" \in DOMAIN inv.resp.headers

\* a Google callback that ended with a session: find_or_create_user returned
SignedIn(inv) ==
    /\ inv.op = "google_callback"
    /\ IsRedirect(inv)
    /\ Location(inv).name = "session"

\* the internal user id find_or_create_user returned to the callback
SignedInUser(inv) == Location(inv).value[1].payload.user_id

ProfileKeys == {k \in DOMAIN store : k[2] = PROFILE}
AuthLinkKeys(provider, provider_id) ==
    {k \in DOMAIN store : k[2] = AuthSk(provider) /\ store[k].providerId = provider_id}

\* after every sign-in: one auth link for the provider id, owned by the
\* returned user, who has a profile; as many profiles as auth links
C1_OneIdentity ==
    SignedIn(last) =>
        /\ AuthLinkKeys("google", last.note.sub) = {<<SignedInUser(last), AuthSk("google")>>}
        /\ <<SignedInUser(last), PROFILE>> \in ProfileKeys
        /\ Cardinality(ProfileKeys) = Cardinality({k \in DOMAIN store : k[2] = AuthSk("google")})

\* two sign-ins in a row with the same provider id: same user, no write
C1_SecondCall ==
    (/\ SignedIn(last)
     /\ SignedIn(last')
     /\ last'.note.sub = last.note.sub)
    => (/\ SignedInUser(last') = SignedInUser(last)
        /\ Writes(last'.ops) = {}
        /\ store' = store)

\* C1: findOrCreateUser called twice in sequence with the same (provider,
\* providerId) returns the same internal user id both times; the store then
\* holds exactly one PROFILE record and one auth#<provider> record for that
\* identity, and the second call writes nothing.
C1_FindOrCreateTwice == [](C1_OneIdentity) /\ [][C1_SecondCall]_vars

\* a sign-in that found the user created by an earlier sign-in
C1_Witness ==
    /\ SignedIn(last)
    /\ Writes(last.ops) = {}
    /\ Len(last.ops) = 1
    /\ uuidCtr >= 1

\* C2: every OAuth callback handler (Google, Spotify, YouTube, SoundCloud)
\* invoked with a non-empty error parameter returns a 302 redirect to the
\* frontend URL whose error parameter carries that error code (it is the
\* last piece of the value; YouTube and SoundCloud put their name before
\* it), and performs no token exchange and no store operation, whatever
\* code and state are.
C2_ErrorRedirects ==
    (/\ last.op \in CallbackOps
     /\ Present(last.event.queryStringParameters.error))
    => (/\ IsRedirect(last)
        /\ Location(last).base = FRONTEND_URL
        /\ Location(last).name = "error"
        /\ Location(last).value[Len(Location(last).value)]
              = last.event.queryStringParameters.error[1]
        /\ last.calls = <<>>
        /\ last.ops = <<>>)

\* a callback carrying an error next to a valid code and state
C2_Witness ==
    /\ last.op \in PlatformCallbackOps
    /\ Present(last.event.queryStringParameters.error)
    /\ Present(last.event.queryStringParameters.code)
    /\ Len(last.event.queryStringParameters.state) >= 2
    /\ IsRedirect(last)
    /\ Location(last).name = "error"

\* the number of colon-delimited parts the state of a flow has
ExpectedParts(op) == IF op = "soundcloud_callback" THEN 3 ELSE 2

InvalidStateCode(op) ==
    IF op = "spotify_callback" THEN <<"invalid_state">>
    ELSE IF op = "youtube_callback" THEN <<"youtube_invalid_state">>
    ELSE <<"soundcloud_invalid_state">>

\* a platform callback that got past the error and the missing-parameter checks
ReachedStateCheck(inv) ==
    /\ inv.op \in PlatformCallbackOps
    /\ ~Present(inv.event.queryStringParameters.error)
    /\ Present(inv.event.queryStringParameters.code)
    /\ inv.event.queryStringParameters.state # <<>>

RejectedState(inv) ==
    /\ IsRedirect(inv)
    /\ Location(inv).name = "error"
    /\ Location(inv).value = InvalidStateCode(inv.op)
    /\ inv.calls = <<>>
    /\ inv.ops = <<>>

UserOps == {"profile", "auth_providers", "platforms", "delete_platform"}

\* the Authorization header is missing or does not start with "Bearer "
NoBearer(inv) ==
    \/ AuthHeader(inv.event) = None
    \/ AuthHeader(inv.event)[1].scheme # "Bearer "

\* what verification of the bearer token gave when the request ran
Verified(inv) == verify_token(AuthHeader(inv.event)[1].token, inv.at).value

ValidSession(inv) == ~NoBearer(inv) /\ Verified(inv) \notin {None, Some("")}

Unauthorized(inv, message) ==
    /\ inv.resp.statusCode = 401
    /\ inv.resp.body = [error |-> message]
    /\ inv.ops = <<>>

\* the store is read and written by logged operations only: a request with
\* an empty log leaves the table as it was
C4_NoAccess ==
    (last'.op \in UserOps /\ last'.ops = <<>>) => store' = store

C4_Answer ==
    last.op \in UserOps =>
        /\ NoBearer(last) => Unauthorized(last, "No valid authorization header")
        /\ (~NoBearer(last) /\ ~ValidSession(last)) => Unauthorized(last, "Invalid session token")

\* C4: profile, authProviders, platforms and deletePlatform, invoked without
\* an Authorization header starting with "Bearer " or with a bearer token
\* that fails verification, answer 401 with the error body 'No valid
\* authorization header' (first case) or 'Invalid session token' (second
\* case), and neither read nor write the store.
C4_Unauthorized == [](C4_Answer) /\ [][C4_NoAccess]_vars

\* a delete request with an expired session of a user whose platform
\* record exists: refused, the record stays
C4_Witness ==
    /\ last.op = "delete_platform"
    /\ ~NoBearer(last)
    /\ AuthHeader(last.event)[1].token \in IssuedSessions(store, now)
    /\ last.note.existed
    /\ Unauthorized(last, "Invalid session token")
    /\ \E k \in DOMAIN store : k[2] = PlatformSk(last.event.pathParameters.platform[1])

PlatformFields == {"platform", "platformUserId", "connected", "connectedAt", "scope"}

\* C5: every item of the platforms() response has only the fields platform,
\* platformUserId, connected, connectedAt and scope, whatever Platform
\* Connection records are stored for the user of the session; no item has
\* an accessToken or a refreshToken field.
C5_NoTokensListed ==
    (last.op = "platforms" /\ last.resp.statusCode = 200)
    => (/\ \A item \in last.resp.body.platforms :
              /\ DOMAIN item = PlatformFields
              /\ {"accessToken", "refreshToken"} \cap DOMAIN item = {}
        /\ {item.platform : item \in last.resp.body.platforms}
              = {k[2][2] : k \in {x \in DOMAIN store :
                                    /\ x[1] = Verified(last)[1]
                                    /\ x[2][1] = "platform#"}})

\* a platforms() response listing a record that holds both tokens
C5_Witness ==
    /\ last.op = "platforms"
    /\ last.resp.statusCode = 200
    /\ last.resp.body.platforms # {}
    /\ \E k \in DOMAIN store :
          /\ k[1] = Verified(last)[1]
          /\ k[2][1] = "platform#"
          /\ {"accessToken", "refreshToken"} \subseteq DOMAIN store[k]

\* a deletePlatform request with a valid session and a platform name
ValidDelete(inv) ==
    /\ inv.op = "delete_platform"
    /\ ValidSession(inv)
    /\ Present(inv.event.pathParameters.platform)

DeletedKey(inv) == <<Verified(inv)[1], PlatformSk(inv.event.pathParameters.platform[1])>>

C6_Success ==
    ValidDelete(last) =>
        /\ last.resp.statusCode = 200
        /\ DeletedKey(last) \notin DOMAIN store

\* every other record stays; a delete of an absent record changes nothing
C6_DeletesOne ==
    ValidDelete(last') =>
        /\ DOMAIN store' = DOMAIN store \ {DeletedKey(last')}
        /\ \A k \in DOMAIN store' : store'[k] = store[k]

\* the same delete again, right after the first
C6_Repeat ==
    (ValidDelete(last) /\ ValidDelete(last') /\ DeletedKey(last') = DeletedKey(last))
    => (store' = store /\ last'.resp.statusCode = 200)

\* C6: deletePlatform with a valid session and a platform name returns
\* success whether or not a platform#<name> record exists for the user (it
\* never answers 404), and calling it again any number of times in a row
\* leaves the store as the first call left it.
C6_IdempotentDelete == [](C6_Success) /\ [][C6_DeletesOne /\ C6_Repeat]_vars

\* the same delete, repeated on the record the first call has removed
C6_Witness ==
    /\ ValidDelete(last)
    /\ last.note.again
    /\ ~last.note.existed
    /\ last.resp.statusCode = 200
    /\ rng > 0

(***************************************************************************)
(* Properties of the session token service (SpecJWT).                      *)
(***************************************************************************)
\* the sessions whose token the last verify_token call was given
VerifiedSessions == {s \in sessions : last.op = "verify_token" /\ s.token = last.token}

Returned(inv, value) == ~inv.raised /\ inv.value = value

\* C7: for every non-empty user id u, verify_token(create_token(u)),
\* evaluated before the expiry the token carries, returns exactly u.
C7_RoundTrip ==
    \A s \in VerifiedSessions :
        (s.user_id # "" /\ last.at < s.token.payload.exp)
        => Returned(last, Some(s.user_id))

\* a token verified some time after it was created, and before it expired
C7_Witness ==
    \E s \in VerifiedSessions :
        /\ s.user_id # ""
        /\ s.at < last.at
        /\ last.at < s.token.payload.exp
        /\ Returned(last, Some(s.user_id))

\* C8: a session token created at time t with a window of D days verifies
\* to its user id at every time before t + D and to 'no value' at every
\* time after t + D; after expiry verify_token neither yields the user id
\* nor raises.
C8_ExpiryWindow ==
    \A s \in VerifiedSessions :
        /\ last.at < s.at + ExpirationDays => Returned(last, Some(s.user_id))
        /\ last.at > s.at + ExpirationDays => Returned(last, None)

\* a token verified after its window has passed
C8_Witness ==
    \E s \in VerifiedSessions :
        /\ s.user_id # ""
        /\ last.at > s.at + ExpirationDays
        /\ Returned(last, None)

\* the three kinds of failure
Expired(token, t) ==
    /\ token \in {s.token : s \in sessions}
    /\ token.payload.exp < t
Malformed(token) == token.segments # 3
SignatureMismatch(token) ==
    /\ token.segments = 3
    /\ token.signature # JwtSign(JWT_SECRET, token.header, token.payload)

\* C9: verify_token never raises; for an expired token, for a malformed
\* token and for a token whose signature does not match it returns the
\* same 'no value', so the caller cannot tell the three failures apart.
C9_NeverRaises ==
    last.op = "verify_token" =>
        /\ ~last.raised
        /\ (\/ Expired(last.token, last.at)
            \/ Malformed(last.token)
            \/ SignatureMismatch(last.token)) => last.value = None

\* an expired token presented: no value and no exception
C9_Witness ==
    /\ last.op = "verify_token"
    /\ Expired(last.token, last.at)
    /\ ~Malformed(last.token)
    /\ ~SignatureMismatch(last.token)
    /\ Returned(last, None)

(***************************************************************************)
(* Properties of the token encryption service (SpecEnc).                   *)
(***************************************************************************)
\* C10: for every plaintext token T, decrypt_token(encrypt_token(T))
\* returns T, and encrypt_token(T) is a string different from T.
C10_EncryptRoundTrip ==
    /\ \A v \in vault : v.cipher # v.plain
    /\ last.op = "decrypt_token" =>
          \A v \in vault : v.cipher = last.input => Returned(last, Some(v.plain))

\* a ciphertext decrypted some time after the encryption
C10_Witness ==
    /\ last.op = "decrypt_token"
    /\ \E v \in vault :
          /\ v.cipher = last.input
          /\ v.plain.fmt = "text"
          /\ v.cipher.timestamp < last.at
          /\ Returned(last, Some(v.plain))

\* what encryption under the configured key produces: a Fernet token
\* authenticated under the key made from ENCRYPTION_KEY
ProducedUnderKey(c) ==
    /\ c.fmt = "fernet"
    /\ c = Fernet_encrypt(FernetKey(ENCRYPTION_KEY), c.ciphertext.plaintext, c.timestamp, c.iv)

\* C11: decrypt_token applied to a string that is not a ciphertext produced
\* by encrypt_token under the configured key raises an error; it returns
\* neither a plaintext nor 'no value' for such input.
C11_InvalidCiphertextRaises ==
    (last.op = "decrypt_token" /\ ~ProducedUnderKey(last.input))
    => (last.raised /\ last.value = None)

\* a Fernet token made under another key is refused with an exception
C11_Witness ==
    /\ last.op = "decrypt_token"
    /\ last.input.fmt = "fernet"
    /\ last.input.hmac.key # FernetKey(ENCRYPTION_KEY)
    /\ last.raised

(***************************************************************************)
(* Properties of the construction of the services (SpecConfig).            *)
(***************************************************************************)
\* the setting a service cannot be constructed without
RequiredSetting(op) == IF op = "TokenService" THEN "ENCRYPTION_KEY" ELSE "JWT_SECRET"

\* absent, or set to the empty string
NotSet(environ, name) ==
    \/ environ[name] = None
    \/ environ[name][1] = (IF name = "ENCRYPTION_KEY" THEN <<>> ELSE "")

\* C12: constructing the token encryption service without ENCRYPTION_KEY,
\* or the JWT session service without JWT_SECRET, fails with a ValueError
\* whose message names the missing setting, and gives no instance.
C12_MissingSecretRejected ==
    (/\ last.op \in {"TokenService", "JWTService"}
     /\ NotSet(last.environ, RequiredSetting(last.op)))
    => (/\ last.exc = "ValueError"
        /\ last.message # <<>>
        /\ last.message[1] = RequiredSetting(last.op)
        /\ last.instance = None)

\* the JWT service constructed with every setting but the secret
C12_Witness ==
    /\ last.op = "JWTService"
    /\ last.environ.JWT_SECRET = None
    /\ last.environ.ENCRYPTION_KEY # None
    /\ last.environ.JWT_EXPIRATION_DAYS # None
    /\ last.exc = "ValueError"
    /\ last.instance = None

\* no ciphertext stands for two plaintexts
C13_OneCiphertextOnePlaintext ==
    \A v1, v2 \in vault : v1.cipher = v2.cipher => v1.plain = v2.plain

\* the ciphertext an encrypt_token call returns was returned by no earlier call
C13_FreshCiphertext ==
    (rng' # rng /\ last'.op = "encrypt_token")
    => (/\ last'.output \notin {v.cipher : v \in vault}
        /\ Cardinality(vault') = Cardinality(vault) + 1)

\* C13: any two encrypt_token calls return different ciphertexts, for two
\* different plaintexts and for the same plaintext encrypted twice.
C13_CiphertextsDiffer == [](C13_OneCiphertextOnePlaintext) /\ [][C13_FreshCiphertext]_vars

\* the same plaintext encrypted twice at the same time: two ciphertexts
C13_Witness ==
    \E v1, v2 \in vault :
        /\ v1.plain = v2.plain
        /\ v1.cipher.timestamp = v2.cipher.timestamp
        /\ v1.cipher # v2.cipher

(***************************************************************************)
(* Properties of the response formatter.                                   *)
(***************************************************************************)
\* C14 as stated: the body of a successful response is an object with the
\* single field data, which holds the payload of the handler.
C14_DataEnvelope ==
    (last.op \in UserOps /\ last.resp.statusCode = 200)
    => DOMAIN last.resp.body = {"data"}

(***************************************************************************)
(* Platform refresh and connect.                                           *)
(***************************************************************************)
\* the session token a request presents: after "Bearer " in the
\* Authorization header, else the sessionToken of its JSON body
PresentedToken(inv) ==
    LET h == AuthHeader(inv.event)
    IN  IF h # None /\ h[1].scheme = "Bearer " THEN Some(h[1].token)
        ELSE IF inv.event.body.kind = "json" THEN inv.event.body.sessionToken
        ELSE None

\* the request carried a session that verified when it ran
PlatformSession(inv) ==
    /\ PresentedToken(inv) # None
    /\ verify_token(PresentedToken(inv)[1], inv.at).value \notin {None, Some("")}
SessionUser(inv) == PresentedToken(inv)[1].payload.user_id

\* the record the request found was stored by a callback whose token
\* response carried no refresh_token: its refreshToken encrypts ''
StoredWithoutRefreshToken(inv) ==
    /\ inv.note.stored # None
    /\ decrypt_token(inv.note.stored[1].refreshToken).value = Some(Text(""))

\* C15: a YouTube refresh on a record connected without a refresh_token
\* answers 400 'No refresh token available - please reconnect YouTube Music',
\* calls no provider and writes nothing to the store.
C15_NoRefreshTokenRejected ==
    (/\ last.op = "youtube_refresh"
     /\ PlatformSession(last)
     /\ StoredWithoutRefreshToken(last))
    => /\ last.resp.statusCode = 400
       /\ last.resp.body.error = "No refresh token available - please reconnect YouTube Music"
       /\ last.calls = <<>>
       /\ Writes(last.ops) = {}

\* C16: a SoundCloud refresh on a record connected without a refresh_token
\* answers 200 with the decrypted stored access token, calls no provider and
\* writes nothing to the store.
C16_FallsBackToAccessToken ==
    (/\ last.op = "soundcloud_refresh"
     /\ PlatformSession(last)
     /\ StoredWithoutRefreshToken(last))
    => /\ last.resp.statusCode = 200
       /\ Some(last.resp.body.accessToken) = decrypt_token(last.note.stored[1].accessToken).value
       /\ last.calls = <<>>
       /\ Writes(last.ops) = {}

\* the answer of connect that starts the flow: an authUrl and a state
StartsFlow(inv) ==
    /\ inv.resp.statusCode = 200
    /\ DOMAIN inv.resp.body = {"authUrl", "state"}

\* the answer of connect on a connected platform
ShortCircuits(inv) ==
    /\ inv.resp.statusCode = 200
    /\ DOMAIN inv.resp.body = {"message", "connected"}
    /\ inv.resp.body.connected = TRUE

\* what connect answers now to a request with a session of the user
ConnectNow(platform_name, event) ==
    IF platform_name = "youtube"
    THEN youtube_connect_handler(Db(store), event, now)
    ELSE soundcloud_connect_handler(Db(store), event, now)

\* a delete request that was answered 200 for a platform that short-circuits
DeletedPlatform(inv) ==
    /\ inv.op = "delete_platform"
    /\ inv.resp.statusCode = 200
    /\ inv.event.pathParameters.platform \in {Some("youtube"), Some("soundcloud")}

\* C17: YouTube and SoundCloud connect with a valid session answer
\* {connected: true}, without authUrl and state, exactly when the session's
\* user has a record of the platform, and authUrl and state otherwise; once
\* deletePlatform has succeeded, connect of that user answers authUrl and
\* state.
C17_ConnectShortCircuits ==
    /\ (/\ last.op \in {"youtube_connect", "soundcloud_connect"}
        /\ PlatformSession(last))
       => /\ ShortCircuits(last) <=> last.note.stored # None
          /\ StartsFlow(last) <=> last.note.stored = None
    /\ DeletedPlatform(last)
       => \A event \in PlatformEvents(store, now) :
            platform_get_user_from_session(event, now)
               = Some(get_user_from_session(last.event, last.at).user_id)
            => DOMAIN ConnectNow(last.event.pathParameters.platform[1], event).resp.body
                  = {"authUrl", "state"}

\* a connect that short-circuited
C17_Witness ==
    /\ last.op \in {"youtube_connect", "soundcloud_connect"}
    /\ PlatformSession(last)
    /\ ShortCircuits(last)

\* C18: Spotify connect answers 401 'Authentication required', without an
\* authUrl, to a request without a valid session; with one it answers 200
\* with an authUrl and a state whose part before the first colon is the
\* session's user, whether or not the user has a Spotify record; it never
\* writes to the store.
C18_SpotifyConnect ==
    last.op = "spotify_connect"
    => /\ Writes(last.ops) = {}
       /\ ~PlatformSession(last)
          => /\ last.resp.statusCode = 401
             /\ last.resp.body = [error |-> "Authentication required"]
       /\ PlatformSession(last)
          => /\ StartsFlow(last)
             /\ Len(last.resp.body.state) = 2
             /\ Split(last.resp.body.state, 1)[1] = <<SessionUser(last)>>
             /\ last.resp.body.authUrl.state = last.resp.body.state

\* Spotify connect started the flow for a user whose Spotify record exists
C18_Witness ==
    /\ last.op = "spotify_connect"
    /\ PlatformSession(last)
    /\ last.note.stored # None
    /\ StartsFlow(last)

\* a SoundCloud refresh that asked the provider with the stored refresh
\* token and was answered with new tokens
RefreshedSoundCloud(inv) ==
    /\ inv.op = "soundcloud_refresh"
    /\ inv.resp.statusCode = 200
    /\ inv.calls = <<"token">>

\* the plaintext of a stored token
Plain(encrypted_token) == decrypt_token(encrypted_token).value

\* C19: a SoundCloud refresh that uses the stored refresh token writes the
\* store in one single update; when the provider sent a new refresh_token,
\* refreshToken and accessToken hold encryptions of the new values, and when
\* it sent none the stored refreshToken is the one found.
C19_RefreshTokenRotation ==
    RefreshedSoundCloud(last) =>
        LET key == <<SessionUser(last), PlatformSk("soundcloud")>>
            old == last.note.stored[1]
            new_token_data == last.note.answer.data
        IN  /\ Cardinality(Writes(last.ops)) = 1
            /\ \A i \in Writes(last.ops) :
                 /\ last.ops[i].op = "update_item"
                 /\ <<last.ops[i].userId, last.ops[i].sk>> = key
            /\ key \in DOMAIN store
            /\ Plain(store[key].accessToken) = Some(new_token_data.access_token)
            /\ store[key].accessToken # old.accessToken
            /\ new_token_data.refresh_token # None
               => /\ Plain(store[key].refreshToken) = new_token_data.refresh_token
                  /\ store[key].refreshToken # old.refreshToken
            /\ new_token_data.refresh_token = None
               => store[key].refreshToken = old.refreshToken

\* a SoundCloud refresh replaced the stored refresh token
C19_Witness ==
    /\ RefreshedSoundCloud(last)
    /\ last.note.answer.data.refresh_token = Some(Text("new-refresh-token"))
    /\ Plain(last.note.stored[1].refreshToken) = Some(Text("refresh-token"))
    /\ Plain(store[<<SessionUser(last), PlatformSk("soundcloud")>>].refreshToken)
         = Some(Text("new-refresh-token"))

\* a Spotify or YouTube refresh that reached update_access_token
UpdatedAccessToken(inv) ==
    /\ inv.op \in {"spotify_refresh", "youtube_refresh"}
    /\ inv.resp.statusCode = 200

RefreshedPlatform(inv) == IF inv.op = "spotify_refresh" THEN "spotify" ELSE "youtube"

AccessTokenFields == {"accessToken", "expiresAt", "expiresIn"}

\* C20: update_access_token, as Spotify and YouTube refresh call it, changes
\* the accessToken, expiresAt and expiresIn of the user's existing platform
\* record and nothing else: the other attributes of that record and all
\* other records of the store stay as they were.
C20_Frame ==
    UpdatedAccessToken(last') =>
        LET key == <<SessionUser(last'), PlatformSk(RefreshedPlatform(last'))>>
        IN  /\ key \in DOMAIN store
            /\ DOMAIN store' = DOMAIN store
            /\ \A k \in DOMAIN store \ {key} : store'[k] = store[k]
            /\ DOMAIN store'[key] = DOMAIN store[key]
            /\ {"platformUserId", "refreshToken", "scope", "connectedAt"}
                  \subseteq DOMAIN store[key]
            /\ \A f \in DOMAIN store[key] \ AccessTokenFields :
                 store'[key][f] = store[key][f]
            /\ Plain(store'[key].accessToken) = Some(last'.resp.body.accessToken)
            /\ store'[key].expiresAt = now
            /\ store'[key].expiresIn = last'.resp.body.expiresIn

C20_OnlyAccessTokenFields == [][C20_Frame]_vars

\* a refresh renewed the access token of a record while the user holds
\* other records
C20_Witness ==
    /\ UpdatedAccessToken(last)
    /\ last.note.stored # None
    /\ store[<<SessionUser(last), PlatformSk(RefreshedPlatform(last))>>].accessToken
         # last.note.stored[1].accessToken
    /\ store[<<SessionUser(last), PlatformSk(RefreshedPlatform(last))>>].expiresIn
         # last.note.stored[1].expiresIn
    /\ Cardinality(DOMAIN store) >= 3

RefreshOps == {"spotify_refresh", "youtube_refresh", "soundcloud_refresh"}

\* what a refresh of the platform answers now
RefreshNow(platform_name, event, prov) ==
    IF platform_name = "spotify"
    THEN spotify_refresh_handler(Db(store), event, prov, now, rng)
    ELSE IF platform_name = "youtube"
    THEN youtube_refresh_handler(Db(store), event, prov, now, rng)
    ELSE soundcloud_refresh_handler(Db(store), event, prov, now, rng)

\* a refresh that found no record: 404, the provider not called, nothing written
NotConnected(out) ==
    /\ out.resp.statusCode = 404
    /\ out.calls = <<>>
    /\ Writes(out.ops) = {}

\* a delete request answered 200 for one of the three platforms
Disconnected(inv) ==
    /\ inv.op = "delete_platform"
    /\ inv.resp.statusCode = 200
    /\ inv.event.pathParameters.platform
         \in {Some("spotify"), Some("youtube"), Some("soundcloud")}

\* C21: a refresh with a valid session whose user has no record of the
\* platform answers 404, calls no provider and writes nothing; once
\* deletePlatform has succeeded for a platform, every refresh of it by that
\* user answers 404.
C21_RefreshNotConnected ==
    /\ (/\ last.op \in RefreshOps
        /\ PlatformSession(last)
        /\ last.note.stored = None)
       => NotConnected(last)
    /\ Disconnected(last)
       => \A event \in PlatformEvents(store, now), prov \in RefreshAnswers :
            platform_get_user_from_session(event, now)
               = Some(get_user_from_session(last.event, last.at).user_id)
            => LET out == RefreshNow(last.event.pathParameters.platform[1], event, prov)
               IN  /\ out.resp.statusCode = 404
                   /\ out.calls = <<>>
                   /\ Writes(out.db.ops) = {}

\* a refresh by a signed-in user who has no record of the platform
C21_Witness ==
    /\ last.op \in RefreshOps
    /\ PlatformSession(last)
    /\ last.note.stored = None
    /\ last.resp.statusCode = 404

\* the keys of the profile and sign-in records
IdentityKeys(items) == {k \in DOMAIN items : k[2] = PROFILE \/ k[2][1] = "auth#"}

\* C22: no operation deletes a PROFILE or auth#<provider> record; a step
\* that removes a key is a deletePlatform, and the key it removes is
\* (session user, platform#<path value>).
C22_Step ==
    /\ IdentityKeys(store) \subseteq IdentityKeys(store')
    /\ \A k \in DOMAIN store \ DOMAIN store' :
         /\ last'.op = "delete_platform"
         /\ k = <<get_user_from_session(last'.event, last'.at).user_id,
                  PlatformSk(last'.event.pathParameters.platform[1])>>

C22_OnlyPlatformRecordsDeleted == [][C22_Step]_vars

\* a delete removed a platform record of a user whose profile and sign-in
\* records are in the store
C22_Witness ==
    /\ last.op = "delete_platform"
    /\ last.note.existed
    /\ last.resp.statusCode = 200
    /\ <<get_user_from_session(last.event, last.at).user_id, PROFILE>> \in DOMAIN store
    /\ <<get_user_from_session(last.event, last.at).user_id, AuthSk("google")>> \in DOMAIN store

\* the session token a successful Google callback put into the redirect
RedirectedSession(inv) == Location(inv).value[1]

\* at the redirect of a successful Google callback: the token verifies to
\* the user who owns the sign-in record of the Google account, and that
\* user has a PROFILE record
C23_AtRedirect ==
    SignedIn(last) =>
        \E k \in AuthLinkKeys("google", last.note.sub) :
            /\ verify_token(RedirectedSession(last), last.at)
                 = [raised |-> FALSE, value |-> Some(k[1])]
            /\ <<k[1], PROFILE>> \in DOMAIN store

\* a PROFILE record stays
C23_ProfileKept == \A k \in ProfileKeys : k \in DOMAIN store'

\* C23: when the Google callback succeeds, the session token of the
\* redirect verifies to the user id find_or_create_user returned, and the
\* PROFILE record of that user is in the store then and ever after.
C23_SessionHasProfile == [](C23_AtRedirect) /\ [][C23_ProfileKept]_vars

\* a Google callback signed in a user whose profile an earlier callback
\* created, more than an expiration window ago
C23_Witness ==
    /\ SignedIn(last)
    /\ Writes(last.ops) = {}
    /\ <<SignedInUser(last), PROFILE>> \in DOMAIN store
    /\ store[<<SignedInUser(last), PROFILE>>].createdAt < last.at

PersistenceOps ==
    {"store_user", "get_user", "store_token", "get_token", "update_access_token",
     "delete_token"}

\* C24: every persistence method raises the error of the table to its
\* caller, after one request and no more, and a handler whose read of the
\* table fails answers with a failure, not with 'not found'.
C24_StoreErrorsPropagate ==
    /\ (last.op \in PersistenceOps /\ last.fault)
       => (last.raised /\ last.requests = 1)
    /\ (/\ last.op = "spotify_auth_refresh"
        /\ last.note.faults.read
        /\ PlatformSession(last))
       => last.resp.statusCode = 500

\* C25: no handler invocation writes the store twice.
C25_AtMostOneWrite ==
    "ops" \in DOMAIN last => Cardinality(Writes(last.ops)) <= 1

\* the statuses of a JSON answer
JsonStatuses == {200, 400, 401, 404, 500}

\* the generic error codes of the callback redirects
GenericCodes ==
    {<<"callback_failed">>, <<"connection_failed">>, <<"youtube_connection_failed">>,
     <<"soundcloud_connection_failed">>}

HandlerOps ==
    CallbackOps \cup UserOps
    \cup {"google_login", "spotify_connect", "youtube_connect", "soundcloud_connect",
          "spotify_refresh", "youtube_refresh", "soundcloud_refresh", "soundcloud_search"}

CarriesBearer(inv) ==
    /\ AuthHeader(inv.event) # None
    /\ AuthHeader(inv.event)[1].scheme = "Bearer "
    /\ AuthHeader(inv.event)[1].token # EmptyToken

\* the body of a lookup carries a session token
CarriesBodyToken(inv) ==
    /\ inv.event.body.kind = "json"
    /\ inv.event.body.sessionToken \notin {None, Some(EmptyToken)}

HeaderToken(inv) == AuthHeader(inv.event)[1].token
BodyToken(inv) == inv.event.body.sessionToken[1]
VerifiesTo(tok, t) == verify_token(tok, t).value

\* C27: the session lookup answers with what verification says of the
\* header's bearer token when the header carries one, whatever the body
\* holds (a body token that verifies is not tried after a header token
\* that does not); with what verification says of the body's sessionToken
\* when the header carries none; and with 'no value' when there is no
\* token at all (no header, an absent body, a body that is not JSON, a
\* body without the field).
C27_HeaderBeforeBody ==
    last.op = "get_user_from_session" =>
        /\ CarriesBearer(last) => last.resp = VerifiesTo(HeaderToken(last), last.at)
        /\ ~CarriesBearer(last) /\ CarriesBodyToken(last)
           => last.resp = VerifiesTo(BodyToken(last), last.at)
        /\ ~CarriesBearer(last) /\ ~CarriesBodyToken(last) => last.resp = None
        /\ last.resp = None \/ last.resp[1] \in {"mmp_1", "mmp_2", "mmp_3"}

\* a header token that does not verify, with a body token that does
C27_Witness ==
    /\ last.op = "get_user_from_session"
    /\ CarriesBearer(last)
    /\ CarriesBodyToken(last)
    /\ VerifiesTo(HeaderToken(last), last.at) = None
    /\ VerifiesTo(BodyToken(last), last.at) # None
    /\ last.resp = None

\* C28: deletePlatform looks at the session first.  Without a valid
\* session it answers 401 for every path value, a missing and an empty
\* platform name included; with a valid session and a missing or empty
\* platform name it answers 400; neither touches the store.
C28_SessionBeforePath ==
    last.op = "delete_platform" =>
        /\ ~ValidSession(last)
           => /\ last.resp.statusCode = 401
              /\ last.ops = <<>>
        /\ ValidSession(last) /\ ~Present(last.event.pathParameters.platform)
           => /\ last.resp.statusCode = 400
              /\ last.resp.body = [error |-> "Platform name required"]
              /\ last.ops = <<>>

\* a delete without a valid session and without a platform name, on a
\* store that holds a platform record
C28_Witness ==
    /\ last.op = "delete_platform"
    /\ ~ValidSession(last)
    /\ ~Present(last.event.pathParameters.platform)
    /\ last.resp.statusCode = 401
    /\ \E k \in DOMAIN store : k[2] \notin {PROFILE} /\ k[2][1] = "platform#"

\* the q of a search request is missing or holds nothing but white space
BlankQuery(inv) ==
    \/ inv.event.queryStringParameters = None
    \/ inv.event.queryStringParameters[1].q = None
    \/ \A i \in DOMAIN inv.event.queryStringParameters[1].q[1] :
          inv.event.queryStringParameters[1].q[1][i] \in WhiteSpace

\* C29: SoundCloud search checks the session, then the query, then the
\* connection: 401 without a valid session, else 400 when q is missing or
\* blank after trimming, else 404 when the user has no SoundCloud record
\* (the store answering); the SoundCloud API is called in none of the
\* three, and no search writes to the store.
C29_SearchOrder ==
    last.op = "soundcloud_search" =>
        /\ Writes(last.ops) = {}
        /\ ~PlatformSession(last)
           => /\ last.resp.statusCode = 401
              /\ last.calls = <<>>
              /\ last.ops = <<>>
        /\ PlatformSession(last) /\ BlankQuery(last)
           => /\ last.resp.statusCode = 400
              /\ last.calls = <<>>
              /\ last.ops = <<>>
        /\ (/\ PlatformSession(last)
            /\ ~BlankQuery(last)
            /\ last.note.failAt = 0
            /\ <<SessionUser(last), PlatformSk("soundcloud")>> \notin DOMAIN store)
           => /\ last.resp.statusCode = 404
              /\ last.calls = <<>>

\* a signed-in user without a SoundCloud record searches for white space
C29_Witness ==
    /\ last.op = "soundcloud_search"
    /\ PlatformSession(last)
    /\ last.event.queryStringParameters = Some([q |-> Some(<<" ", " ">>)])
    /\ <<SessionUser(last), PlatformSk("soundcloud")>> \notin DOMAIN store
    /\ last.resp.statusCode = 400

\* the logical endpoints and the handler of each
LogicalEndpoints ==
    {Route("POST", <<"auth", "google", "login">>, "google.login_handler"),
     Route("GET", <<"auth", "google", "callback">>, "google.callback_handler"),
     Route("GET", <<"platforms", "soundcloud", "search">>, "soundcloud.search_handler"),
     Route("GET", <<"user", "profile">>, "user.profile_handler"),
     Route("GET", <<"user", "auth-providers">>, "user.auth_providers_handler"),
     Route("GET", <<"user", "platforms">>, "user.platforms_handler"),
     Route("DELETE", <<"user", "platforms", "spotify">>, "user.delete_platform_handler"),
     Route("GET", <<"health">>, "health"),
     Route("GET", <<>>, "root")}
    \cup UNION {{Route("POST", <<"platforms", p, "connect">>, p \o ".connect_handler"),
                 Route("GET", <<"platforms", p, "callback">>, p \o ".callback_handler"),
                 Route("POST", <<"platforms", p, "refresh">>, p \o ".refresh_handler")} :
                    p \in {"spotify", "youtube", "soundcloud"}}

\* C30: a request for a logical endpoint (Google login and callback;
\* connect, callback and refresh of spotify, youtube and soundcloud;
\* SoundCloud search; the four user endpoints; /health and /) is
\* dispatched to the endpoint's handler by main.py and by local/app.py.
C30_SameEndpoints ==
    last.op = "dispatch" =>
        \A e \in LogicalEndpoints :
            last.method = e.method /\ last.path = e.template => last.target = Some(e.target)


\* C31: a platform callback writes a Platform Connection record for a
\* user only when the state it carries was handed out before by a connect
\* call made with a valid session of that user; a state built by hand
\* causes no write.
C31_OnlyIssuedStates ==
    last.op \in PlatformCallbackOps /\ Writes(last.ops) # {} =>
        last.event.queryStringParameters.state \in oauthStates

\* the Auth Provider Links of a Google account
LinksOf(sub) ==
    {k \in DOMAIN store : k[2] = AuthSk("google") /\ store[k].providerId = sub}

\* C32: however concurrent Google callbacks of one Google account
\* interleave, the account gets one internal user: the store holds at most
\* one auth#google record with its providerId, and all sessions issued for
\* it name the same user id.
C32_OneUserPerIdentity ==
    \A a \in GoogleAccounts :
        /\ Cardinality(LinksOf(a.sub)) <= 1
        /\ \A s1, s2 \in {s \in sessions : s.sub = a.sub} : s1.user_id = s2.user_id

\* C37: in every state, between the two writes of find_or_create_user and
\* after an invocation ended between them included, every auth#google
\* record has a PROFILE record with its userId.
C37_ProfileBeforeLink ==
    \A k \in DOMAIN store : k[2] = AuthSk("google") => <<k[1], PROFILE>> \in DOMAIN store

\* an invocation has written its PROFILE and not yet its link, another
\* one has ended at that point
C37_Witness ==
    /\ \E p \in inflight : p.pc = "link" /\ <<p.user_id, PROFILE>> \in DOMAIN store
    /\ \E k \in DOMAIN store :
          /\ k[2] = PROFILE
          /\ <<k[1], AuthSk("google")>> \notin DOMAIN store
          /\ \A p \in inflight : p.user_id # k[1]

\* C33: once every concurrent SoundCloud refresh of a user has answered,
\* the record holds the refresh token the token endpoint issued last (the
\* only one it still accepts) and the access token issued with it.
C33_LatestTokensStored ==
    \A k \in DOMAIN store :
        (/\ k[2] = PlatformSk("soundcloud")
         /\ \A p \in inflight : p.op # "soundcloud_refresh"
         /\ outside.issued > 0)
        => /\ "refreshToken" \in DOMAIN store[k]
           /\ decrypt_token(store[k].refreshToken).value
                  = Some(Text(RefreshNames[outside.issued]))
           /\ decrypt_token(store[k].accessToken).value
                  = Some(Text(AccessNames[outside.issued]))

\* two refreshes had read the same refresh token: one was issued a new pair
\* and has written it, the other was turned away by the token endpoint
C33_Witness ==
    /\ inflight = {}
    /\ outside.issued >= 2
    /\ last.op = "soundcloud_refresh"
    /\ last.resp.statusCode = 500
    /\ last.calls = <<"token">>
    /\ <<"mmp_1", PlatformSk("soundcloud")>> \in DOMAIN store
    /\ decrypt_token(store[<<"mmp_1", PlatformSk("soundcloud")>>].refreshToken).value
           = Some(Text(RefreshNames[outside.issued]))

\* C34: after deletePlatform answered 200 and while no callback has
\* completed since, the user has no record of the platform, also when a
\* refresh had read the record before the delete and writes after it, and
\* platforms() does not list the platform.
C34_DeletedStaysDeleted ==
    \A d \in outside.disconnected :
        /\ <<d[1], PlatformSk(d[2])>> \notin DOMAIN store
        /\ (/\ last.op = "platforms"
            /\ last.resp.statusCode = 200
            /\ get_user_from_session(last.event, last.at).user_id = d[1])
           => \A entry \in last.resp.body.platforms : entry.platform # d[2]


SessionOps ==
    UserOps \cup {"spotify_connect", "youtube_connect", "soundcloud_connect",
                  "spotify_refresh", "youtube_refresh", "soundcloud_refresh",
                  "soundcloud_search"}

\* the user id the handler verified from the session token of the request
VerifiedUser(inv) ==
    IF inv.op \in UserOps
    THEN LET s == get_user_from_session(inv.event, inv.at)
         IN  IF s.exc = "none" THEN Some(s.user_id) ELSE None
    ELSE LET user_id == platform_get_user_from_session(inv.event, inv.at)
         IN  IF NoUser(user_id) THEN None ELSE user_id

\* C36: a session-authenticated operation asks the table only for records
\* of the user its session token verified to, and leaves every record of
\* every other user as it was; without a verified session it asks for none.
C36_OwnRecordsOnly ==
    [][last'.op \in SessionOps =>
        LET u == VerifiedUser(last')
        IN  /\ \A i \in 1..Len(last'.ops) : u # None /\ last'.ops[i].userId = u[1]
            /\ \A k \in DOMAIN store \cup DOMAIN store' :
                  (u = None \/ k[1] # u[1])
                  => /\ k \in DOMAIN store
                     /\ k \in DOMAIN store'
                     /\ store[k] = store'[k]]_vars

\* a user disconnects a platform that another user is connected to as well
C36_Witness ==
    /\ last.op = "delete_platform"
    /\ last.resp.statusCode = 200
    /\ last.note.existed
    /\ \E k \in DOMAIN store :
          /\ k[1] # VerifiedUser(last)[1]
          /\ Some(k[2][2]) = last.event.pathParameters.platform

\* C38: a callback that is handed the state of a connect call as it was
\* built links the platform to the user whose session made the connect
\* call, and to nobody else; for SoundCloud the verifier it sends to the
\* token endpoint is the one whose S256 challenge was in the authorization
\* URL, so the code is exchanged.
C38_StateRoundTrip ==
    (last.op \in PlatformCallbackOps /\ "sent" \in DOMAIN last.note) =>
        LET state == last.event.queryStringParameters.state
        IN  /\ state = last.note.sent.state
            /\ Location(last).value = <<"connected">>
            /\ Writes(last.ops) # {}
            /\ \A i \in 1..Len(last.ops) : last.ops[i].userId = last.note.user
            /\ last.op = "soundcloud_callback"
               => S256(CodeVerifier(StateParts(state, 2))) = last.note.sent.code_challenge

\* the SoundCloud flow of the second user has come back and is stored
C38_Witness ==
    /\ last.op = "soundcloud_callback"
    /\ "sent" \in DOMAIN last.note
    /\ last.note.user = "mmp_2"
    /\ last.calls = <<"token", "me">>
    /\ <<"mmp_2", PlatformSk("soundcloud")>> \in DOMAIN store

====
